---- MODULE Spec2Model ----
(***************************************************************************)
(* State-machine model of the React Native client of the downloader:       *)
(*   - DownloadController (controllers/downloadController.ts) driving one   *)
(*     of the three YTDLPWrapper variants (A: per-wrapper youtubei.js       *)
(*     session, B: process-wide memoised session, C: backend-delegated     *)
(*     wrapper with an OS-level background task and WebSocket events);      *)
(*   - SearchController over the wrappers' query operations;                *)
(*   - WebSocketClient (api/websocket.ts) and its reconnect logic.          *)
(* JavaScript runs handlers to completion: one action is one handler run    *)
(* (or one continuation after an await that waits for the outside world).   *)
(***************************************************************************)
EXTENDS Integers, Sequences, FiniteSets, TLC

\* ------------------------------------------------------------------ bounds
\* downloadVideo calls per run, and per run of a Variant C build (whose
\* downloads carry the state of the background task and of the WebSocket
\* subscription as well)
MaxTasks == 2

MaxBackgroundTasks == 1

\* SearchController calls per run
MaxCalls == 2

\* WebSocket objects created per run, and how far the reconnect counter is
\* followed
MaxSockets == 3

MaxAttemptsFollowed == 7

\* Variant C without a controller: descriptors an earlier run left in
\* storage, and WebSocket objects created per run
MaxRestored == 2

MaxServerSockets == 2

\* downloadVideo calls made on the wrapper itself
MaxDirect == 1

\* startDownload calls followed in the app shell
MaxStarts == 2

\* pieces of text typed into the search box
MaxQueryLen == 4

\* videos the engine or the backend finds, and the largest maxResults asked
MaxEngineResults == 3

MaxAsked == 2

\* the durations formatted: from -MaxNegative to MaxDuration seconds
MaxDuration == 36610

MaxNegative == 3

\* tasks started from the cards, and replacements of the controller
MaxCardTasks == 2

MaxControllers == 1

\* getInnertubeInstance and resetInnertubeInstance calls followed
MaxTubeCalls == 3

MaxResets == 1

\* stream descriptors of one video and the bitrates they declare
MaxFormats == 3

\* stream descriptors of the video of a Variant B download
MaxBFormats == 2

MaxBitrate == 2

\* downloadVideo calls of one wrapper whose transfers overlap
MaxTransfers == 2

\* storage writes in flight at one time
MaxWrites == 2

Ids == 1..MaxTasks

\* ------------------------------------------------------------- vocabulary
Variants == {"A", "B", "C"}

\* JavaScript's undefined, for the optional field DownloadTask.error
Undefined == "undefined"

Terminal == {"completed", "canceled", "error"}

\* a downloadVideo call on the wrapper before any of its callbacks ran
NoCallbacks == [errorCb |-> FALSE, complete |-> 0, error |-> 0]

\* video.url values handed to downloadVideo: one that carries a video id and
\* one from which extractVideoId yields null
Urls == {"https://youtu.be/dQw4w9WgXcQ", "not a video"}

\* cachePath as normalizeDirUri leaves it: "" when none was given
CachePaths == {"", "cache/"}

\* Variant B: no video info fetched yet, and no attempt made to get a url
NoInfo == [status |-> "", player |-> FALSE, streaming_data |-> FALSE, formats |-> <<>>]

NoAttempts == [decipher |-> "none", decipherNull |-> "none", cipher |-> "none"]

\* progress percentages an engine or the OS-level background task reports of
\* its transfer
ProgressValues == {50}

\* Variant C: progress percentages the backend reports of its own download
\* in download_progress events
WsProgressValues == {80}

\* values moveFileToFinalDestination can return (the SAF uri it created, or
\* the cache file path on every fallback), and a path reported by the backend
FinalPaths == {"content://saf/video.mp4"}

ServerPaths == {"/srv/downloads/video.mp4"}

VARIABLES
    variant,            \* which wrapper file the build links
    cachePath,          \* YTDLPWrapper.cachePath
    client,             \* the extraction session exists (A: this.client, B: innertube)
    allDownloads,       \* DownloadController.allDownloads: id -> DownloadTask
    downloadHistory,    \* DownloadController.downloadHistory (task ids)
    wpc,                \* where each wrapper downloadVideo call stands
    success,            \* how the wrapper's promise settled, as the controller's await sees it
    completeCalls,      \* invocations of the caller's completeCallback, per task
    completeArg,        \* the path last handed to the caller's completeCallback
    errorCalls,         \* invocations of the caller's errorCallback, per task
    progressCalls,      \* the caller's progressCallback was invoked, per task
    lastCall,           \* the last pause/resume/cancel call and what it returned
    progressCallbacks,  \* Variant C: keys of this.progressCallbacks
    completeCallbacks,  \* Variant C: keys of this.completeCallbacks
    errorCallbacks,     \* Variant C: keys of this.errorCallbacks
    subscribed,         \* Variant C: wsClient.subscribedDownloads
    backgroundDownloads,\* Variant C: keys of this.backgroundDownloads
    bg,                 \* Variant C: state of the OS-level background task
    stopped,            \* Variant C: tasks whose stop() was invoked
    wcancel,            \* Variant C: where each wrapper cancelDownload call stands
    searchClient,       \* the session of the SearchController's wrapper exists
    calls,              \* SearchController calls: call number -> its state
    currentSearchResult,    \* SearchController.currentSearchResult (call number, 0: null)
    currentPlaylistVideos,  \* SearchController.currentPlaylistVideos (call number, 0: [])
    ws,                 \* WebSocketClient.ws (socket number, 0: null)
    sockets,            \* readyState of every WebSocket object created so far
    reconnectAttempts,  \* WebSocketClient.reconnectAttempts
    reconnectTimer,     \* WebSocketClient.reconnectTimer (its delay in ms, 0: null)
    isIntentionalClose, \* WebSocketClient.isIntentionalClose
    sent,               \* what the handler that just ran handed to WebSocket.send:
                        \* <<socket, type, download id>>
    isWebSocketConnected,   \* Variant C: YTDLPWrapper.isWebSocketConnected
    wire,               \* ids whose subscribe message WebSocket.send has carried
    storage,            \* Variant C: ids of the descriptors stored under STORAGE_KEY_DOWNLOADS
    writes,             \* Variant C: AsyncStorage.setItem calls in flight, oldest first
    restore,            \* Variant C: where restoreActiveDownloads stands
    restoring,          \* Variant C: the descriptors it has read and not yet handled
    direct,             \* Variant C: downloadVideo calls made on the wrapper itself:
                        \* error callback given, callbacks invoked so far
    isReady,            \* App: the isReady state
    cachePathState,     \* App: the cachePath state ("" until the cache directory is ready)
    cacheDir,           \* initDownloadDir: its cacheDir ("null", a "handle" whose
                        \* directory was not created, or "created")
    saf,                \* how the SAF directory in use was obtained ("none" if there is none)
    downloadControllerRef,  \* App: downloadControllerRef.current is set
    initDownloadDir,    \* where initDownloadDir stands
    rendered,           \* isReady and cachePath as the handlers of the last render see them
    picking,            \* handleChangeSafDirectory awaiting the picker: the cachePath
                        \* its closure holds
    invocations,        \* DownloadController.downloadVideo calls made by startDownload
    lastStart,          \* what the last startDownload did
    queryText,          \* App: the query state, a sequence of pieces of text
    loading,            \* App: the loading state
    invoked,            \* SearchController operations the last handleSearch invoked
    request,            \* a call of searchVideos on a wrapper, of pickStreamUrl or of
                        \* formatDuration: its arguments and, for searchVideos, what
                        \* the engine or the backend answered
    result,             \* what the call returned or resolved with
    bpc,                \* Variant B: where one downloadVideo call stands
    videoInfo,          \* what yt.getInfo resolved with
    requestedFormat,    \* the formatType of the call
    selectedFormat,     \* position of selectedFormat in the combined list (0: none)
    attempts,           \* how each attempt to get a url for selectedFormat ended
    downloadUrl,        \* downloadUrl: the position of the format it belongs to (0: unset)
    transfer,           \* the resumable's byte transfer
    timeoutTimer,       \* the 300 s timer of the race, and whether its firing rejected the race
    returned,           \* what the call's promise resolved with
    completed,          \* invocations of the call's completeCallback
    controller,         \* App: which DownloadController downloadControllerRef.current
                        \* is, counted by the replacements the folder picker made
    created,            \* every DownloadTask created, with the controller instance
                        \* whose allDownloads holds it
    downloads,          \* App: the tasks in the downloads state
    innertube,          \* Variant B: the module's innertube (a creation number, 0: null)
    initPromise,        \* Variant B: the module's initPromise (a creation number, 0: null)
    creations,          \* Innertube.create() calls made: how each stands, and how
                        \* many resets had been made when it started
    tubeCalls,          \* getInnertubeInstance calls made: what each awaits or got,
                        \* and how many resets had been made when it was called
    resets,             \* resetInnertubeInstance calls made
    movePc,             \* where one moveFileToFinalDestination call stands
    moveArgs,           \* finalIsSaf and finalDownloadPath of the wrapper, and the
                        \* mimeType of the call
    cacheFile,          \* the downloaded file exists at cacheFilePath
    safFile,            \* the file in the SAF directory: "none", "created", "copied"
    moveResult,         \* the path the call resolved with: "none", "cache", "saf"
    transfers,          \* Variants A and B: the downloadVideo calls that reached
                        \* their transfer: cacheFilePath and where each stands
    cacheFiles          \* the paths at which a file exists in the cache directory

dcVars == <<variant, cachePath, client, allDownloads, downloadHistory, wpc,
            success, completeCalls, completeArg, errorCalls, progressCalls,
            lastCall, progressCallbacks, completeCallbacks, errorCallbacks, subscribed,
            backgroundDownloads, bg, stopped, wcancel>>

\* the DownloadController's part of dcVars
ctlVars == <<variant, cachePath, client, allDownloads, downloadHistory, wpc,
             success, completeCalls, completeArg, errorCalls, progressCalls,
             lastCall>>

cVars == <<progressCallbacks, completeCallbacks, errorCallbacks, subscribed,
           backgroundDownloads, bg, stopped, wcancel>>

searchVars == <<searchClient, calls, currentSearchResult, currentPlaylistVideos>>

wsVars == <<ws, sockets, reconnectAttempts, reconnectTimer, isIntentionalClose,
            sent, isWebSocketConnected, wire>>

\* Variant C used without a controller: local storage and the restore
serverVars == <<storage, writes, restore, restoring, direct>>

\* the app shell: its state, the search box, and a search through a wrapper
shellVars == <<isReady, cachePathState, cacheDir, saf, downloadControllerRef, initDownloadDir,
               rendered, picking, invocations, lastStart>>

boxVars == <<queryText, loading, invoked>>

resultVars == <<request, result>>

\* one downloadVideo call on the wrapper of Variant B
extractVars == <<bpc, videoInfo, requestedFormat, selectedFormat, attempts, downloadUrl,
                 transfer, timeoutTimer, returned, completed>>

\* Variant B: the process-wide Innertube instance and the calls that ask for it
tubeVars == <<innertube, initPromise, creations, tubeCalls, resets>>

\* Variants B and C: one moveFileToFinalDestination call
moveVars == <<movePc, moveArgs, cacheFile, safFile, moveResult>>

\* Variants A and B: the cache files of overlapping downloadVideo calls
cacheVars == <<transfers, cacheFiles>>

\* the wrappers' own parts that the controllers do not see
libVars == <<extractVars, tubeVars, moveVars, cacheVars>>

\* the App's controller instances, their tasks and the downloads state
cardVars == <<controller, created, downloads>>

appVars == <<shellVars, boxVars, resultVars, libVars, cardVars>>

vars == <<dcVars, searchVars, wsVars, serverVars, appVars>>

\* ------------------------------------------------------- pure helpers

\* extractVideoId: null for a string with no video id in it
extractVideoId(url) ==
    IF url = "https://youtu.be/dQw4w9WgXcQ" THEN "dQw4w9WgXcQ" ELSE Undefined

\* the task object literal at the top of DownloadController.downloadVideo
QueuedTask(url) ==
    [url |-> url, status |-> "queued", progress |-> 0,
     error |-> Undefined, pauseFlag |-> FALSE, cancelFlag |-> FALSE]

\* a downloadVideo that reaches its await with the task as it was inserted
NewTaskLeftQueued(url) == QueuedTask(url)

\* the task as the map holds it when downloadVideo reaches its first await:
\* inserted queued and flipped to downloading in the same synchronous run
NewTask(url) == [QueuedTask(url) EXCEPT !.status = "downloading"]

\* the progress lambda handed to the wrapper
OnProgress(t, p) == [t EXCEPT !.progress = p]

\* a completion lambda that does not look at cancelFlag
OnCompleteIgnoringCancel(t) ==
    [t EXCEPT !.progress = 100, !.status = "completed"]

\* the completion lambda handed to the wrapper
OnComplete(t) ==
    IF ~t.cancelFlag
    THEN [t EXCEPT !.progress = 100, !.status = "completed"]
    ELSE t

\* a failure branch that does not look at cancelFlag
OnFailureIgnoringCancel(t) ==
    [t EXCEPT !.status = "error", !.error = "Download failed"]

\* the branch taken after the await when the wrapper resolved false
OnFailure(t) ==
    IF t.cancelFlag
    THEN [t EXCEPT !.status = "canceled", !.error = "Canceled"]
    ELSE [t EXCEPT !.status = "error", !.error = "Download failed"]

\* a pauseDownload that also accepts a paused task
pauseDownloadFromPaused(tasks, id) ==
    IF id \notin DOMAIN tasks
       \/ tasks[id].status \notin {"downloading", "queued", "paused"}
    THEN [ret |-> FALSE, tasks |-> tasks]
    ELSE [ret |-> TRUE,
          tasks |-> [tasks EXCEPT ![id].pauseFlag = TRUE, ![id].status = "paused"]]

\* DownloadController.pauseDownload: the map after the call and its result
pauseDownload(tasks, id) ==
    IF id \notin DOMAIN tasks \/ tasks[id].status \notin {"downloading", "queued"}
    THEN [ret |-> FALSE, tasks |-> tasks]
    ELSE [ret |-> TRUE,
          tasks |-> [tasks EXCEPT ![id].pauseFlag = TRUE, ![id].status = "paused"]]

\* a resumeDownload that, once the task is found paused, resumes every
\* paused task of the map
resumeDownloadEveryPaused(tasks, id) ==
    IF id \notin DOMAIN tasks \/ tasks[id].status # "paused"
    THEN [ret |-> FALSE, tasks |-> tasks]
    ELSE [ret |-> TRUE,
          tasks |-> [i \in DOMAIN tasks |->
                       IF tasks[i].status = "paused"
                       THEN [tasks[i] EXCEPT !.pauseFlag = FALSE,
                                             !.status = "downloading"]
                       ELSE tasks[i]]]

\* DownloadController.resumeDownload
resumeDownload(tasks, id) ==
    IF id \notin DOMAIN tasks \/ tasks[id].status # "paused"
    THEN [ret |-> FALSE, tasks |-> tasks]
    ELSE [ret |-> TRUE,
          tasks |-> [tasks EXCEPT ![id].pauseFlag = FALSE,
                                  ![id].status = "downloading"]]

\* a cancelDownload whose guard forgets the completed status
cancelDownloadOfCompleted(tasks, id) ==
    IF id \notin DOMAIN tasks \/ tasks[id].status \in {"canceled", "error"}
    THEN [ret |-> FALSE, tasks |-> tasks]
    ELSE [ret |-> TRUE,
          tasks |-> [tasks EXCEPT ![id].cancelFlag = TRUE,
                                  ![id].pauseFlag = FALSE,
                                  ![id].status = "canceled",
                                  ![id].error = "Canceled"]]

\* DownloadController.cancelDownload
cancelDownload(tasks, id) ==
    IF id \notin DOMAIN tasks \/ tasks[id].status \in Terminal
    THEN [ret |-> FALSE, tasks |-> tasks]
    ELSE [ret |-> TRUE,
          tasks |-> [tasks EXCEPT ![id].cancelFlag = TRUE,
                                  ![id].pauseFlag = FALSE,
                                  ![id].status = "canceled",
                                  ![id].error = "Canceled"]]

\* ------------------------------------------------------------------ Init
Init ==
    /\ variant \in Variants
    /\ cachePath \in CachePaths
    /\ client = FALSE
    /\ allDownloads = <<>>
    /\ downloadHistory = <<>>
    /\ wpc = [i \in Ids |-> "idle"]
    /\ success = [i \in Ids |-> "none"]
    /\ completeCalls = [i \in Ids |-> 0]
    /\ completeArg = [i \in Ids |-> Undefined]
    /\ errorCalls = [i \in Ids |-> 0]
    /\ progressCalls = [i \in Ids |-> FALSE]
    /\ lastCall = [op |-> "none", id |-> 0, ret |-> FALSE]
    /\ progressCallbacks = {}
    /\ completeCallbacks = {}
    /\ errorCallbacks = {}
    /\ subscribed = {}
    /\ backgroundDownloads = {}
    /\ bg = [i \in Ids |-> "none"]
    /\ stopped = {}
    /\ wcancel = [i \in Ids |-> "idle"]
    /\ searchClient = FALSE
    /\ calls = <<>>
    /\ currentSearchResult = 0
    /\ currentPlaylistVideos = 0
    /\ ws = 0
    /\ sockets = <<>>
    /\ reconnectAttempts = 0
    /\ reconnectTimer = 0
    /\ isIntentionalClose = FALSE
    /\ sent = {}
    /\ wire = {}
    /\ isWebSocketConnected = FALSE
    /\ storage = {}
    /\ writes = <<>>
    /\ restore = "none"
    /\ restoring = <<>>
    /\ direct = [i \in Ids |-> NoCallbacks]
    /\ isReady = FALSE
    /\ cachePathState = ""
    /\ cacheDir = "null"
    /\ saf = "none"
    /\ downloadControllerRef = FALSE
    /\ initDownloadDir = "mounted"
    /\ rendered = [isReady |-> FALSE, cachePath |-> ""]
    /\ picking = [on |-> FALSE, cachePath |-> ""]
    /\ invocations = 0
    /\ lastStart = "none"
    /\ queryText = <<>>
    /\ loading = FALSE
    /\ invoked = <<>>
    /\ movePc = "idle"
    /\ moveArgs = [finalIsSaf |-> FALSE, finalDownloadPath |-> "", mimeType |-> Undefined]
    /\ cacheFile = FALSE
    /\ safFile = "none"
    /\ moveResult = "none"
    /\ transfers = <<>>
    /\ cacheFiles = {}
    /\ innertube = 0
    /\ initPromise = 0
    /\ creations = <<>>
    /\ tubeCalls = <<>>
    /\ resets = 0
    /\ controller = 0
    /\ created = <<>>
    /\ downloads = {}
    /\ bpc = "idle"
    /\ videoInfo = NoInfo
    /\ requestedFormat = "mp4"
    /\ selectedFormat = 0
    /\ attempts = NoAttempts
    /\ downloadUrl = 0
    /\ transfer = "none"
    /\ timeoutTimer = "none"
    /\ returned = "none"
    /\ completed = 0
    /\ request = [made |-> FALSE]
    /\ result = [delivered |-> FALSE]

\* --------------------------------------- DownloadController.downloadVideo

\* the controller's code after "await this.ytdlp.downloadVideo(...)", run
\* for every task of S (in call order) with the wrapper's result ok; tasks
\* is the map as the wrapper's callbacks left it
Settle(S, tasks, ok) ==
    /\ allDownloads' = [i \in DOMAIN tasks |->
                          IF i \in S /\ ~ok THEN OnFailure(tasks[i]) ELSE tasks[i]]
    /\ errorCalls' = [i \in Ids |->
                        IF i \in S /\ ~ok /\ ~tasks[i].cancelFlag
                        THEN errorCalls[i] + 1 ELSE errorCalls[i]]
    /\ downloadHistory' = downloadHistory \o
                            SelectSeq([i \in Ids |-> i], LAMBDA i : i \in S)
    /\ success' = [i \in Ids |->
                     IF i \in S THEN (IF ok THEN "true" ELSE "false") ELSE success[i]]
    /\ wpc' = [i \in Ids |-> IF i \in S THEN "returned" ELSE wpc[i]]

\* a completion lambda that forwards to the caller's callback whatever
\* cancelFlag says
CompleteIgnoringCancel(id, path) ==
    /\ completeCalls' = [completeCalls EXCEPT ![id] = @ + 1]
    /\ completeArg' = [completeArg EXCEPT ![id] = path]

\* the wrapper invokes the completion lambda with path for task id
Complete(id, path) ==
    /\ completeCalls' = [completeCalls EXCEPT
                           ![id] = IF allDownloads[id].cancelFlag THEN @ ELSE @ + 1]
    /\ completeArg' = [completeArg EXCEPT
                         ![id] = IF allDownloads[id].cancelFlag THEN @ ELSE path]

\* the wrapper invokes the progress lambda with p for task id
Progress(id, p) ==
    /\ allDownloads' = [allDownloads EXCEPT ![id] = OnProgress(@, p)]
    /\ progressCalls' = [progressCalls EXCEPT ![id] = TRUE]

\* downloadVideo(video, ...) up to the first await that waits for the
\* outside world; a wrapper that returns false at once is settled at once
DownloadVideo(url) ==
    LET id == Cardinality(DOMAIN allDownloads) + 1
        tasks == [i \in DOMAIN allDownloads \cup {id} |->
                    IF i = id THEN NewTask(url) ELSE allDownloads[i]]
        sessionReady == client
        badInput == extractVideoId(url) = Undefined \/ cachePath = ""
    IN  /\ id \in Ids
        /\ variant = "C" => id <= MaxBackgroundTasks
        /\ CASE variant = "A" /\ ~sessionReady ->
                  /\ allDownloads' = tasks
                  /\ wpc' = [wpc EXCEPT ![id] = "getClient"]
                  /\ success' = [success EXCEPT ![id] = "pending"]
                  /\ UNCHANGED <<errorCalls, downloadHistory>>
             [] variant = "B" /\ ~badInput /\ ~sessionReady ->
                  /\ allDownloads' = tasks
                  /\ wpc' = [wpc EXCEPT ![id] = "getInnertubeInstance"]
                  /\ success' = [success EXCEPT ![id] = "pending"]
                  /\ UNCHANGED <<errorCalls, downloadHistory>>
             [] variant \in {"A", "B"} /\ ~badInput /\ sessionReady ->
                  /\ allDownloads' = tasks
                  /\ wpc' = [wpc EXCEPT ![id] = "getInfo"]
                  /\ success' = [success EXCEPT ![id] = "pending"]
                  /\ UNCHANGED <<errorCalls, downloadHistory>>
             [] variant = "C" /\ cachePath # "" ->
                  /\ allDownloads' = tasks
                  /\ wpc' = [wpc EXCEPT ![id] = "initiateDownload"]
                  /\ success' = [success EXCEPT ![id] = "pending"]
                  /\ UNCHANGED <<errorCalls, downloadHistory>>
             [] OTHER -> Settle({id}, tasks, FALSE)
        /\ UNCHANGED <<searchVars, appVars, serverVars, wsVars, variant, cachePath, client, completeCalls, completeArg,
                       progressCalls, lastCall, cVars>>

\* ------------------------------------------- Variants A and B: the wrapper

\* Variant A, "await this.getClient()" when no session exists yet: each call
\* runs its own Innertube.create(). The await stands outside every try, so
\* a failed creation rejects the wrapper's promise and with it the
\* controller's downloadVideo, before its line 65.
GetClient(id, ok) ==
    /\ variant = "A"
    /\ wpc[id] = "getClient"
    /\ IF ~ok
       THEN /\ success' = [success EXCEPT ![id] = "rejected"]
            /\ wpc' = [wpc EXCEPT ![id] = "rejected"]
            /\ UNCHANGED <<client, allDownloads, errorCalls, downloadHistory>>
       ELSE /\ client' = TRUE
            /\ IF extractVideoId(allDownloads[id].url) = Undefined \/ cachePath = ""
               THEN Settle({id}, allDownloads, FALSE)
               ELSE /\ wpc' = [wpc EXCEPT ![id] = "getInfo"]
                    /\ UNCHANGED <<success, allDownloads, errorCalls, downloadHistory>>
    /\ UNCHANGED <<searchVars, appVars, serverVars, wsVars, variant, cachePath, completeCalls, completeArg,
                   progressCalls, lastCall, cVars>>

\* Variant B, the promise memoised in initPromise settles: every call that
\* awaits it continues (all inside downloadVideo's try)
GetInnertubeInstance(ok) ==
    LET waiting == {i \in Ids : wpc[i] = "getInnertubeInstance"}
    IN  /\ variant = "B"
        /\ waiting # {}
        /\ client' = ok
        /\ IF ok
           THEN /\ wpc' = [i \in Ids |-> IF i \in waiting THEN "getInfo" ELSE wpc[i]]
                /\ UNCHANGED <<success, allDownloads, errorCalls, downloadHistory>>
           ELSE Settle(waiting, allDownloads, FALSE)
        /\ UNCHANGED <<searchVars, appVars, serverVars, wsVars, variant, cachePath, completeCalls, completeArg,
                       progressCalls, lastCall, cVars>>

\* getInfo and the choice of a stream (and, in Variant B, the playability
\* check, the deciphering and the cache directory check): every failure is
\* caught or answered with "return false"
GetInfo(id, ok) ==
    /\ variant \in {"A", "B"}
    /\ wpc[id] = "getInfo"
    /\ IF ok
       THEN /\ wpc' = [wpc EXCEPT ![id] = "downloadAsync"]
            /\ UNCHANGED <<success, allDownloads, errorCalls, downloadHistory>>
       ELSE Settle({id}, allDownloads, FALSE)
    /\ UNCHANGED <<searchVars, appVars, serverVars, wsVars, variant, cachePath, client, completeCalls, completeArg,
                   progressCalls, lastCall, cVars>>

\* the resumable download reports bytes written of a known total
DownloadProgress(id, p) ==
    /\ variant \in {"A", "B"}
    /\ wpc[id] = "downloadAsync"
    /\ Progress(id, p)
    /\ UNCHANGED <<searchVars, appVars, serverVars, wsVars, variant, cachePath, client, downloadHistory, wpc, success,
                   completeCalls, completeArg, errorCalls, lastCall, cVars>>

\* resumable.downloadAsync() settles (in Variant B a 300 s timer may reject
\* it first)
DownloadAsync(id, ok) ==
    /\ variant \in {"A", "B"}
    /\ wpc[id] = "downloadAsync"
    /\ IF ok
       THEN /\ wpc' = [wpc EXCEPT ![id] = "moveFile"]
            /\ UNCHANGED <<success, allDownloads, errorCalls, downloadHistory>>
       ELSE Settle({id}, allDownloads, FALSE)
    /\ UNCHANGED <<searchVars, appVars, serverVars, wsVars, variant, cachePath, client, completeCalls, completeArg,
                   progressCalls, lastCall, cVars>>

\* moveFileToFinalDestination resolves (it catches everything), the wrapper
\* calls completeCallback(finalPath) and returns true
MoveFileToFinalDestination(id, path) ==
    /\ variant \in {"A", "B"}
    /\ wpc[id] = "moveFile"
    /\ Complete(id, path)
    /\ Settle({id}, [allDownloads EXCEPT ![id] = OnComplete(@)], TRUE)
    /\ UNCHANGED <<searchVars, appVars, serverVars, wsVars, variant, cachePath, client, progressCalls, lastCall, cVars>>

\* ------------------------------- pauseDownload / resumeDownload / cancelDownload

PauseDownload(id) ==
    /\ allDownloads' = pauseDownload(allDownloads, id).tasks
    /\ lastCall' = [op |-> "pause", id |-> id, ret |-> pauseDownload(allDownloads, id).ret]
    /\ UNCHANGED <<searchVars, appVars, serverVars, wsVars, variant, cachePath, client, downloadHistory, wpc, success,
                   completeCalls, completeArg, errorCalls, progressCalls, cVars>>

ResumeDownload(id) ==
    /\ allDownloads' = resumeDownload(allDownloads, id).tasks
    /\ lastCall' = [op |-> "resume", id |-> id, ret |-> resumeDownload(allDownloads, id).ret]
    /\ UNCHANGED <<searchVars, appVars, serverVars, wsVars, variant, cachePath, client, downloadHistory, wpc, success,
                   completeCalls, completeArg, errorCalls, progressCalls, cVars>>

CancelDownload(id) ==
    /\ allDownloads' = cancelDownload(allDownloads, id).tasks
    /\ lastCall' = [op |-> "cancel", id |-> id, ret |-> cancelDownload(allDownloads, id).ret]
    /\ UNCHANGED <<searchVars, appVars, serverVars, wsVars, variant, cachePath, client, downloadHistory, wpc, success,
                   completeCalls, completeArg, errorCalls, progressCalls, cVars>>

\* ------------------------------------------------- Variant C: the wrapper

\* the synchronous part of cleanupDownload(id)
CleanupDownload(id) ==
    /\ progressCallbacks' = progressCallbacks \ {id}
    /\ completeCallbacks' = completeCallbacks \ {id}
    /\ errorCallbacks' = errorCallbacks \ {id}
    /\ subscribed' = subscribed \ {id}
    /\ backgroundDownloads' = backgroundDownloads \ {id}

\* YouTubeAPI.initiateDownload settles; on success the callbacks are stored
\* (the controller passes no error callback), the id is subscribed and
\* RNBackgroundDownloader.download starts the OS task, or throws
InitiateDownload(id, ok, started) ==
    /\ variant = "C"
    /\ wpc[id] = "initiateDownload"
    /\ IF ~ok
       THEN /\ Settle({id}, allDownloads, FALSE)
            /\ UNCHANGED <<progressCallbacks, completeCallbacks, errorCallbacks, subscribed,
                           backgroundDownloads, bg>>
       ELSE /\ progressCallbacks' = progressCallbacks \cup {id}
            /\ completeCallbacks' = completeCallbacks \cup {id}
            /\ UNCHANGED errorCallbacks
            /\ subscribed' = subscribed \cup {id}
            /\ IF started
               THEN /\ backgroundDownloads' = backgroundDownloads \cup {id}
                    /\ bg' = [bg EXCEPT ![id] = "started"]
                    /\ wpc' = [wpc EXCEPT ![id] = "persistActiveDownloads"]
                    /\ UNCHANGED <<success, allDownloads, errorCalls, downloadHistory>>
               ELSE /\ Settle({id}, allDownloads, FALSE)
                    /\ UNCHANGED <<backgroundDownloads, bg>>
    /\ UNCHANGED <<searchVars, appVars, serverVars, wsVars, variant, cachePath, client, completeCalls, completeArg,
                   progressCalls, lastCall, stopped, wcancel>>

\* persistActiveDownloads resolves (it catches everything); attachTaskHandlers
\* attaches the handlers if the download is still tracked; return true
PersistActiveDownloads(id) ==
    /\ variant = "C"
    /\ wpc[id] = "persistActiveDownloads"
    /\ bg' = [bg EXCEPT ![id] = IF id \in backgroundDownloads /\ @ = "started"
                                THEN "running" ELSE @]
    /\ Settle({id}, allDownloads, TRUE)
    /\ UNCHANGED <<searchVars, appVars, serverVars, wsVars, variant, cachePath, client, completeCalls, completeArg,
                   progressCalls, lastCall, progressCallbacks, completeCallbacks, errorCallbacks,
                   subscribed, backgroundDownloads, stopped, wcancel>>

\* a progress report reaches the stored progress callback, if still stored
ReportProgress(id, p) ==
    IF id \in progressCallbacks
    THEN Progress(id, p)
    ELSE UNCHANGED <<allDownloads, progressCalls>>

\* a completion report reaches the stored complete callback, if still stored
ReportComplete(id, path) ==
    IF id \in completeCallbacks
    THEN /\ Complete(id, path)
         /\ allDownloads' = [allDownloads EXCEPT ![id] = OnComplete(@)]
    ELSE UNCHANGED <<allDownloads, completeCalls, completeArg>>

\* wsClient delivers download_progress for a subscribed id
WsDownloadProgress(id, p) ==
    /\ variant = "C"
    /\ id \in subscribed
    /\ ReportProgress(id, p)
    /\ UNCHANGED <<searchVars, appVars, serverVars, wsVars, variant, cachePath, client, downloadHistory, wpc, success,
                   completeCalls, completeArg, errorCalls, lastCall, cVars>>

\* wsClient delivers download_complete for a subscribed id
WsDownloadComplete(id, path) ==
    /\ variant = "C"
    /\ id \in subscribed
    /\ ReportComplete(id, path)
    /\ CleanupDownload(id)
    /\ UNCHANGED <<searchVars, appVars, serverVars, wsVars, variant, cachePath, client, downloadHistory, wpc, success,
                   errorCalls, progressCalls, lastCall, bg, stopped, wcancel>>

\* wsClient delivers download_error: no error callback is stored for a
\* controller's download, so the handler only cleans up
WsDownloadError(id) ==
    /\ variant = "C"
    /\ id \in subscribed
    /\ CleanupDownload(id)
    /\ UNCHANGED <<searchVars, appVars, serverVars, wsVars, variant, cachePath, client, allDownloads, downloadHistory,
                   wpc, success, completeCalls, completeArg, errorCalls,
                   progressCalls, lastCall, bg, stopped, wcancel>>

\* wsClient delivers download_cancelled
WsDownloadCancelled(id) ==
    /\ variant = "C"
    /\ id \in subscribed
    /\ CleanupDownload(id)
    /\ UNCHANGED <<searchVars, appVars, serverVars, wsVars, variant, cachePath, client, allDownloads, downloadHistory,
                   wpc, success, completeCalls, completeArg, errorCalls,
                   progressCalls, lastCall, bg, stopped, wcancel>>

\* the OS task's progress handler
TaskProgress(id, p) ==
    /\ variant = "C"
    /\ bg[id] = "running"
    /\ ReportProgress(id, p)
    /\ UNCHANGED <<searchVars, appVars, serverVars, wsVars, variant, cachePath, client, downloadHistory, wpc, success,
                   completeCalls, completeArg, errorCalls, lastCall, cVars>>

\* the OS task's done handler, up to "await moveFileToFinalDestination"
TaskDone(id) ==
    /\ variant = "C"
    /\ bg[id] = "running"
    /\ bg' = [bg EXCEPT ![id] = "moveFile"]
    /\ UNCHANGED <<searchVars, appVars, serverVars, wsVars, variant, cachePath, client, allDownloads, downloadHistory,
                   wpc, success, completeCalls, completeArg, errorCalls,
                   progressCalls, lastCall, progressCallbacks, completeCallbacks, errorCallbacks,
                   subscribed, backgroundDownloads, stopped, wcancel>>

\* the rest of the done handler: the complete callback, then cleanup
TaskMoved(id, path) ==
    /\ variant = "C"
    /\ bg[id] = "moveFile"
    /\ bg' = [bg EXCEPT ![id] = "done"]
    /\ ReportComplete(id, path)
    /\ CleanupDownload(id)
    /\ UNCHANGED <<searchVars, appVars, serverVars, wsVars, variant, cachePath, client, downloadHistory, wpc, success,
                   errorCalls, progressCalls, lastCall, stopped, wcancel>>

\* the OS task's error handler: cleanup only
TaskError(id) ==
    /\ variant = "C"
    /\ bg[id] = "running"
    /\ bg' = [bg EXCEPT ![id] = "error"]
    /\ CleanupDownload(id)
    /\ UNCHANGED <<searchVars, appVars, serverVars, wsVars, variant, cachePath, client, allDownloads, downloadHistory,
                   wpc, success, completeCalls, completeArg, errorCalls,
                   progressCalls, lastCall, stopped, wcancel>>

\* YTDLPWrapper.cancelDownload(id) up to "await YouTubeAPI.cancelDownload":
\* a public method of the wrapper that no code of the client calls
WrapperCancelDownload(id) ==
    /\ variant = "C"
    /\ id \in backgroundDownloads
    /\ wcancel[id] = "idle"
    /\ wcancel' = [wcancel EXCEPT ![id] = "cancelDownload"]
    /\ UNCHANGED <<searchVars, appVars, serverVars, wsVars, variant, cachePath, client, allDownloads, downloadHistory,
                   wpc, success, completeCalls, completeArg, errorCalls,
                   progressCalls, lastCall, progressCallbacks, completeCallbacks, errorCallbacks,
                   subscribed, backgroundDownloads, bg, stopped>>

\* the backend answers the cancel request: on success the task is stopped
\* and the download cleaned up, on failure the catch returns false
WrapperCancelSettled(id, ok) ==
    /\ variant = "C"
    /\ wcancel[id] = "cancelDownload"
    /\ wcancel' = [wcancel EXCEPT ![id] = "idle"]
    /\ IF ok
       THEN /\ stopped' = stopped \cup {id}
            /\ bg' = [bg EXCEPT ![id] = IF @ \in {"started", "running"}
                                        THEN "stopped" ELSE @]
            /\ CleanupDownload(id)
       ELSE UNCHANGED <<stopped, bg, progressCallbacks, completeCallbacks, errorCallbacks,
                        subscribed, backgroundDownloads>>
    /\ UNCHANGED <<searchVars, appVars, serverVars, wsVars, variant, cachePath, client, allDownloads, downloadHistory,
                   wpc, success, completeCalls, completeArg, errorCalls,
                   progressCalls, lastCall>>

\* ------------------------------------------------------------------ Next
Next ==
    \/ \E url \in Urls : DownloadVideo(url)
    \/ \E id \in Ids, ok \in BOOLEAN : GetClient(id, ok)
    \/ \E ok \in BOOLEAN : GetInnertubeInstance(ok)
    \/ \E id \in Ids, ok \in BOOLEAN : GetInfo(id, ok)
    \/ \E id \in Ids, p \in ProgressValues : DownloadProgress(id, p)
    \/ \E id \in Ids, ok \in BOOLEAN : DownloadAsync(id, ok)
    \/ \E id \in Ids, path \in FinalPaths : MoveFileToFinalDestination(id, path)
    \/ \E id \in Ids : PauseDownload(id)
    \/ \E id \in Ids : ResumeDownload(id)
    \/ \E id \in Ids : CancelDownload(id)
    \/ \E id \in Ids, ok \in BOOLEAN, started \in BOOLEAN :
          InitiateDownload(id, ok, started)
    \/ \E id \in Ids : PersistActiveDownloads(id)
    \/ \E id \in Ids, p \in WsProgressValues : WsDownloadProgress(id, p)
    \/ \E id \in Ids, path \in ServerPaths : WsDownloadComplete(id, path)
    \/ \E id \in Ids : WsDownloadError(id)
    \/ \E id \in Ids : WsDownloadCancelled(id)
    \/ \E id \in Ids, p \in ProgressValues : TaskProgress(id, p)
    \/ \E id \in Ids : TaskDone(id)
    \/ \E id \in Ids, path \in FinalPaths : TaskMoved(id, path)
    \/ \E id \in Ids : TaskError(id)
    \/ \E id \in Ids : WrapperCancelDownload(id)
    \/ \E id \in Ids, ok \in BOOLEAN : WrapperCancelSettled(id, ok)

Spec == Init /\ [][Next]_vars

\* what the event loop and the outside world are bound to do eventually for
\* download id: every pending promise settles and a running OS task ends,
\* in done or in error. Calls by the user or of the wrapper's own
\* cancelDownload, WebSocket messages and progress reports are not owed.
Fairness(id) ==
    /\ WF_vars(\E ok \in BOOLEAN : GetClient(id, ok))
    /\ WF_vars(\E ok \in BOOLEAN : GetInfo(id, ok))
    /\ WF_vars(\E ok \in BOOLEAN : DownloadAsync(id, ok))
    /\ WF_vars(\E path \in FinalPaths : MoveFileToFinalDestination(id, path))
    /\ WF_vars(\E ok \in BOOLEAN, started \in BOOLEAN :
                  InitiateDownload(id, ok, started))
    /\ WF_vars(PersistActiveDownloads(id))
    /\ WF_vars(TaskDone(id) \/ TaskError(id))
    /\ WF_vars(\E path \in FinalPaths : TaskMoved(id, path))
    /\ WF_vars(\E ok \in BOOLEAN : WrapperCancelSettled(id, ok))

LiveSpec ==
    /\ Init
    /\ [][Next]_vars
    /\ \A id \in Ids : Fairness(id)
    /\ WF_vars(\E ok \in BOOLEAN : GetInnertubeInstance(ok))

\* ----------------------------------------------------- SearchController

Calls == 1..MaxCalls

Queries == {"lofi mix"}

PlaylistUrls == {"https://youtube.com/playlist?list=PL1", "not a video"}

\* extractPlaylistId: null for a string with no list= parameter
extractPlaylistId(url) ==
    IF url = "https://youtube.com/playlist?list=PL1" THEN "PL1" ELSE Undefined

\* the error a failed Innertube.create() rejects with, and String(error)
SessionError == [name |-> "Error", message |-> "session"]

String(error) == error.name \o ": " \o error.message

\* the wrapper answers null / [] before it asks the engine
BadId(op, input) ==
    \/ op = "getVideoInfo" /\ extractVideoId(input) = Undefined
    \/ op = "getPlaylistVideos" /\ extractPlaylistId(input) = Undefined

\* Variant A after "await this.getClient()" has resolved
AfterGetClient(op, input) == IF BadId(op, input) THEN "empty" ELSE "engine"

\* where a wrapper query call first waits for the outside world, or the
\* value it resolves to at once
WrapperStart(op, input) ==
    CASE variant = "A" ->
            IF searchClient THEN AfterGetClient(op, input) ELSE "getClient"
      [] variant = "B" ->
            IF BadId(op, input) THEN "empty"
            ELSE IF searchClient THEN "engine" ELSE "getInnertubeInstance"
      [] variant = "C" ->
            IF op = "getPlaylistVideos" THEN "empty" ELSE "engine"

\* a controller method without its try/catch: a throwing wrapper call
\* rejects the method's promise
settleWithoutCatch(call, w) ==
    IF w = "thrown"
    THEN [call EXCEPT !.pc = "rejected", !.wrapper = w]
    ELSE [call EXCEPT !.pc = "resolved", !.wrapper = w,
                      !.onResult = IF call.resultCb THEN @ + 1 ELSE @]

\* the body of searchVideos / getVideoInfo / getPlaylistVideos after the
\* await: callback?.(result) in the try, errorCallback?.(String(error)) in
\* the catch
settle(call, w) ==
    IF w = "thrown"
    THEN [call EXCEPT !.pc = "resolved", !.wrapper = w,
                      !.onError = IF call.errorCb THEN @ + 1 ELSE @,
                      !.errorArg = IF call.errorCb THEN String(SessionError) ELSE @]
    ELSE [call EXCEPT !.pc = "resolved", !.wrapper = w,
                      !.onResult = IF call.resultCb THEN @ + 1 ELSE @]

\* the calls of S get the wrapper's answer w (in call order)
SettleCalls(S, cs, w) ==
    /\ calls' = [c \in DOMAIN cs |-> IF c \in S THEN settle(cs[c], w) ELSE cs[c]]
    /\ currentSearchResult' =
          LET hit == {c \in S : cs[c].op = "searchVideos" /\ w # "thrown"}
          IN  IF hit = {} THEN currentSearchResult
              ELSE CHOOSE c \in hit : \A d \in hit : d <= c
    /\ currentPlaylistVideos' =
          LET hit == {c \in S : cs[c].op = "getPlaylistVideos" /\ w # "thrown"}
          IN  IF hit = {} THEN currentPlaylistVideos
              ELSE CHOOSE c \in hit : \A d \in hit : d <= c

\* a controller method is called: the wrapper runs up to its first wait
StartCall(op, input, resultCb, errorCb) ==
    LET c == Len(calls) + 1
        start == WrapperStart(op, input)
        call == [op |-> op, input |-> input, resultCb |-> resultCb,
                 errorCb |-> errorCb, pc |-> start, wrapper |-> "pending",
                 onResult |-> 0, onError |-> 0, errorArg |-> Undefined]
        cs == Append(calls, call)
    IN  /\ c \in Calls
        /\ IF start \in {"empty", "value"}
           THEN SettleCalls({c}, cs, start)
           ELSE /\ calls' = cs
                /\ UNCHANGED <<currentSearchResult, currentPlaylistVideos>>
        /\ UNCHANGED <<searchClient, dcVars, wsVars, serverVars, appVars>>

SearchVideos(query, resultCb, errorCb) ==
    StartCall("searchVideos", query, resultCb, errorCb)

GetVideoInfo(url, resultCb, errorCb) ==
    StartCall("getVideoInfo", url, resultCb, errorCb)

GetPlaylistVideos(url, resultCb, errorCb) ==
    StartCall("getPlaylistVideos", url, resultCb, errorCb)

\* Variant A, "const client = await this.getClient()" of a query method: the
\* await stands before the try, so a failed creation makes the call throw
QueryGetClient(c, ok) ==
    /\ variant = "A"
    /\ c \in DOMAIN calls
    /\ calls[c].pc = "getClient"
    /\ IF ok
       THEN /\ searchClient' = TRUE
            /\ IF AfterGetClient(calls[c].op, calls[c].input) = "empty"
               THEN SettleCalls({c}, calls, "empty")
               ELSE /\ calls' = [calls EXCEPT ![c].pc = "engine"]
                    /\ UNCHANGED <<currentSearchResult, currentPlaylistVideos>>
       ELSE /\ SettleCalls({c}, calls, "thrown")
            /\ UNCHANGED searchClient
    /\ UNCHANGED <<dcVars, wsVars, serverVars, appVars>>

\* Variant B, the memoised initPromise settles for every query call that
\* awaits it, inside the method's try
QueryGetInnertubeInstance(ok) ==
    LET waiting == {c \in DOMAIN calls : calls[c].pc = "getInnertubeInstance"}
    IN  /\ variant = "B"
        /\ waiting # {}
        /\ searchClient' = ok
        /\ IF ok
           THEN /\ calls' = [c \in DOMAIN calls |->
                               IF c \in waiting
                               THEN [calls[c] EXCEPT !.pc = "engine"] ELSE calls[c]]
                /\ UNCHANGED <<currentSearchResult, currentPlaylistVideos>>
           ELSE SettleCalls(waiting, calls, "empty")
        /\ UNCHANGED <<dcVars, wsVars, serverVars, appVars>>

\* the engine (or the backend) answers: a value, or a failure that the
\* wrapper's catch turns into null / [] / an empty SearchResult
QueryEngine(c, w) ==
    /\ c \in DOMAIN calls
    /\ calls[c].pc = "engine"
    /\ SettleCalls({c}, calls, w)
    /\ UNCHANGED <<searchClient, dcVars, wsVars, serverVars, appVars>>

SearchNext ==
    \/ \E q \in Queries, r \in BOOLEAN, e \in BOOLEAN : SearchVideos(q, r, e)
    \/ \E u \in Urls, r \in BOOLEAN, e \in BOOLEAN : GetVideoInfo(u, r, e)
    \/ \E u \in PlaylistUrls, r \in BOOLEAN, e \in BOOLEAN : GetPlaylistVideos(u, r, e)
    \/ \E c \in Calls, ok \in BOOLEAN : QueryGetClient(c, ok)
    \/ \E ok \in BOOLEAN : QueryGetInnertubeInstance(ok)
    \/ \E c \in Calls, w \in {"value", "empty"} : QueryEngine(c, w)

SearchSpec == Init /\ [][SearchNext]_vars

\* ------------------------------------------------------- WebSocketClient

maxReconnectAttempts == 5

reconnectDelay == 3000

SocketIds == 1..MaxSockets

\* scheduleReconnect() on the client state w
scheduleReconnect(w) ==
    IF w.reconnectTimer # 0
    THEN w
    ELSE [w EXCEPT !.reconnectAttempts = @ + 1,
                   !.reconnectTimer = reconnectDelay * (w.reconnectAttempts + 1)]

\* an onclose handler that does not look at isIntentionalClose
oncloseAfterAnyClose(w) ==
    LET closed == [w EXCEPT !.ws = 0]
    IN  IF w.reconnectAttempts < maxReconnectAttempts
        THEN scheduleReconnect(closed)
        ELSE closed

\* the onclose handler installed by connect()
onclose(w) ==
    LET closed == [w EXCEPT !.ws = 0]
    IN  IF ~w.isIntentionalClose /\ w.reconnectAttempts < maxReconnectAttempts
        THEN scheduleReconnect(closed)
        ELSE closed

\* the client's fields as one record, and back
Client ==
    [ws |-> ws, reconnectAttempts |-> reconnectAttempts,
     reconnectTimer |-> reconnectTimer, isIntentionalClose |-> isIntentionalClose]

SetClient(w) ==
    /\ ws' = w.ws
    /\ reconnectAttempts' = w.reconnectAttempts
    /\ reconnectTimer' = w.reconnectTimer
    /\ isIntentionalClose' = w.isIntentionalClose

\* connect() on the client state w: constructed says whether new WebSocket
\* returned a socket or threw
connect(w, constructed) ==
    IF w.ws # 0 /\ sockets[w.ws] = "OPEN"
    THEN [client |-> w, sockets |-> sockets]
    ELSE IF constructed
         THEN [client |-> [w EXCEPT !.isIntentionalClose = FALSE,
                                    !.ws = Len(sockets) + 1],
               sockets |-> Append(sockets, "CONNECTING")]
         ELSE [client |-> scheduleReconnect([w EXCEPT !.isIntentionalClose = FALSE]),
               sockets |-> sockets]

\* a bound of the model: sockets are numbered up to MaxSockets and the
\* counter is followed up to MaxAttemptsFollowed
Within(r) ==
    /\ Len(r.sockets) <= MaxSockets
    /\ r.client.reconnectAttempts <= MaxAttemptsFollowed

\* send(type, {downloadId}) for each id of ids while this.ws is socket w:
\* the messages that reach WebSocket.send; none unless w is open
send(type, ids, w, socks) ==
    IF w # 0 /\ socks[w] = "OPEN"
    THEN {<<w, type, id>> : id \in ids}
    ELSE {}

\* the ids whose subscribe message WebSocket.send has carried so far
Carry ==
    wire' = wire \cup {m[3] : m \in {x \in sent' : x[2] = "subscribe"}}

\* WebSocketClient.isConnected()
isConnected == ws # 0 /\ sockets[ws] = "OPEN"

\* wsClient.connect(), called by every wrapper constructor
Connect(constructed) ==
    /\ Within(connect(Client, constructed))
    /\ SetClient(connect(Client, constructed).client)
    /\ sockets' = connect(Client, constructed).sockets
    /\ sent' = {}
    /\ UNCHANGED <<dcVars, searchVars, appVars, serverVars, isWebSocketConnected>>
    /\ Carry

\* the reconnect timer fires: reconnectTimer = null, then connect()
ReconnectTimerFires(constructed) ==
    LET w == [Client EXCEPT !.reconnectTimer = 0]
    IN  /\ reconnectTimer # 0
        /\ Within(connect(w, constructed))
        /\ SetClient(connect(w, constructed).client)
        /\ sockets' = connect(w, constructed).sockets
        /\ sent' = {}
        /\ UNCHANGED <<dcVars, searchVars, appVars, serverVars, isWebSocketConnected>>
        /\ Carry

\* a connecting socket opens: onopen resets the counter and emits CONNECT,
\* on which the wrapper sets its flag and subscribes every download it
\* tracks; then onopen subscribes every id of subscribedDownloads again.
\* Every send goes to this.ws, whichever socket has opened.
SocketOpens(s) ==
    /\ s \in DOMAIN sockets
    /\ sockets[s] = "CONNECTING"
    /\ sockets' = [sockets EXCEPT ![s] = "OPEN"]
    /\ reconnectAttempts' = 0
    /\ isWebSocketConnected' = TRUE
    /\ subscribed' = subscribed \cup backgroundDownloads
    /\ sent' = send("subscribe", subscribed', ws, sockets')
    /\ UNCHANGED <<ws, reconnectTimer, isIntentionalClose, ctlVars, searchVars, appVars, serverVars,
                   progressCallbacks, completeCallbacks, errorCallbacks, backgroundDownloads,
                   bg, stopped, wcancel>>
    /\ Carry

\* a socket closes (refused, dropped, or closed by disconnect()): its
\* onclose handler runs, whichever socket this.ws names by now
SocketCloses(s) ==
    /\ s \in DOMAIN sockets
    /\ sockets[s] \in {"CONNECTING", "OPEN", "CLOSING"}
    /\ sockets' = [sockets EXCEPT ![s] = "CLOSED"]
    /\ isWebSocketConnected' = FALSE
    /\ SetClient(onclose(Client))
    /\ sent' = {}
    /\ UNCHANGED <<dcVars, searchVars, appVars, serverVars>>
    /\ Carry

\* disconnect()
Disconnect ==
    /\ isIntentionalClose' = TRUE
    /\ reconnectTimer' = 0
    /\ ws' = 0
    /\ sockets' = IF ws # 0 /\ sockets[ws] \in {"CONNECTING", "OPEN"}
                  THEN [sockets EXCEPT ![ws] = "CLOSING"]
                  ELSE sockets
    /\ subscribed' = {}
    /\ sent' = {}
    /\ UNCHANGED <<reconnectAttempts, isWebSocketConnected, ctlVars, searchVars, appVars, serverVars,
                   progressCallbacks, completeCallbacks, errorCallbacks, backgroundDownloads,
                   bg, stopped, wcancel>>
    /\ Carry

\* wsClient.subscribeToDownload(downloadId)
SubscribeToDownload(id) ==
    /\ subscribed' = subscribed \cup {id}
    /\ sent' = send("subscribe", {id}, ws, sockets)
    /\ UNCHANGED <<ws, sockets, reconnectAttempts, reconnectTimer, isIntentionalClose,
                   isWebSocketConnected, ctlVars, searchVars, appVars, serverVars,
                   progressCallbacks, completeCallbacks, errorCallbacks, backgroundDownloads,
                   bg, stopped, wcancel>>
    /\ Carry

\* wsClient.unsubscribeFromDownload(downloadId)
UnsubscribeFromDownload(id) ==
    /\ subscribed' = subscribed \ {id}
    /\ sent' = send("unsubscribe", {id}, ws, sockets)
    /\ UNCHANGED <<ws, sockets, reconnectAttempts, reconnectTimer, isIntentionalClose,
                   isWebSocketConnected, ctlVars, searchVars, appVars, serverVars,
                   progressCallbacks, completeCallbacks, errorCallbacks, backgroundDownloads,
                   bg, stopped, wcancel>>
    /\ Carry

WsNext ==
    \/ \E constructed \in BOOLEAN : Connect(constructed)
    \/ \E constructed \in BOOLEAN : ReconnectTimerFires(constructed)
    \/ \E s \in SocketIds : SocketOpens(s)
    \/ \E s \in SocketIds : SocketCloses(s)
    \/ Disconnect
    \/ \E id \in Ids : SubscribeToDownload(id)
    \/ \E id \in Ids : UnsubscribeFromDownload(id)

WsSpec == Init /\ [][WsNext]_vars

\* ----------------------------------------------------------------- claims

Status(id) == allDownloads[id].status

Known(id) == id \in DOMAIN allDownloads

ControlCall(id) == PauseDownload(id) \/ ResumeDownload(id) \/ CancelDownload(id)

\* C1: on a task that is completed, canceled or error, and on an unknown
\* downloadId, pauseDownload, resumeDownload and cancelDownload each return
\* false and leave the task (status, pauseFlag, cancelFlag, error) as it was.
C1_TerminalTaskIsFrozen ==
    [][\A id \in Ids :
          (~Known(id) \/ Status(id) \in Terminal) /\ ControlCall(id)
          => lastCall'.ret = FALSE /\ allDownloads' = allDownloads]_vars

\* a cancelDownload on a completed task has returned false
C1_Witness ==
    \E id \in Ids :
        /\ Known(id) /\ Status(id) = "completed" /\ completeCalls[id] = 1
        /\ lastCall = [op |-> "cancel", id |-> id, ret |-> FALSE]

\* C2: when the wrapper's download call resolves false, a task whose
\* cancelFlag was set becomes canceled / "Canceled" without an error
\* callback, and any other task becomes error / "Download failed" with the
\* error callback invoked; the error callback is invoked at no other time,
\* so exactly once.
C2_FailureBranch ==
    [][\A id \in Ids :
          LET cancelled == Known(id) /\ allDownloads[id].cancelFlag
              failsNow == success[id] # "false" /\ success'[id] = "false"
          IN  /\ failsNow /\ cancelled
                 => /\ allDownloads'[id].status = "canceled"
                    /\ allDownloads'[id].error = "Canceled"
                    /\ errorCalls'[id] = 0
              /\ failsNow /\ ~cancelled
                 => /\ allDownloads'[id].status = "error"
                    /\ allDownloads'[id].error = "Download failed"
                    /\ errorCalls'[id] = 1
              /\ errorCalls'[id] # errorCalls[id] => failsNow /\ ~cancelled]_vars

\* one download failed after a cancel, another failed without one
C2_Witness ==
    \E i, j \in Ids :
        /\ Known(i) /\ Known(j)
        /\ success[i] = "false" /\ success[j] = "false"
        /\ allDownloads[i].cancelFlag /\ Status(i) = "canceled" /\ errorCalls[i] = 0
        /\ ~allDownloads[j].cancelFlag /\ Status(j) = "error" /\ errorCalls[j] = 1

OutcomeCompleted(id) ==
    /\ Known(id)
    /\ Status(id) = "completed"
    /\ allDownloads[id].progress = 100
    /\ completeCalls[id] = 1
    /\ completeArg[id] \notin {Undefined, ""}

OutcomeFailed(id) ==
    /\ Known(id)
    /\ Status(id) \in {"error", "canceled"}
    /\ allDownloads[id].error \notin {Undefined, ""}
    /\ completeCalls[id] = 0

\* C3: every downloadVideo call eventually leaves its task completed (with
\* progress 100 and the complete callback invoked with a non-empty path) or
\* error/canceled (with a non-empty error and no complete callback).
C3_EveryDownloadEnds ==
    \A id \in Ids : Known(id) ~> (OutcomeCompleted(id) \/ OutcomeFailed(id))

\* C4: a task enters completed or error only from downloading.
C4_TerminalOnlyFromDownloading ==
    [][\A id \in Ids :
          /\ Known(id)
          /\ allDownloads'[id].status \in {"completed", "error"}
          /\ allDownloads'[id].status # Status(id)
          => Status(id) = "downloading"]_vars

\* C5 as stated: on a paused task only resumeDownload returns true; on a
\* downloading task pauseDownload and cancelDownload return true and
\* resumeDownload returns false.
C5_OnlyResumeFromPaused ==
    [][\A id \in Ids :
          /\ Known(id) /\ Status(id) = "paused"
             => /\ ResumeDownload(id) => lastCall'.ret = TRUE
                /\ PauseDownload(id) => lastCall'.ret = FALSE
                /\ CancelDownload(id) => lastCall'.ret = FALSE
          /\ Known(id) /\ Status(id) = "downloading"
             => /\ ResumeDownload(id) => lastCall'.ret = FALSE
                /\ PauseDownload(id) => lastCall'.ret = TRUE
                /\ CancelDownload(id) => lastCall'.ret = TRUE]_vars

\* C5 (amended): on a paused task resumeDownload and cancelDownload return
\* true and pauseDownload returns false; on a downloading task pauseDownload
\* and cancelDownload return true and resumeDownload returns false.
C5_ResultsByStatus ==
    [][\A id \in Ids :
          /\ Known(id) /\ Status(id) = "paused"
             => /\ ResumeDownload(id) => lastCall'.ret = TRUE
                /\ PauseDownload(id) => lastCall'.ret = FALSE
                /\ CancelDownload(id) => lastCall'.ret = TRUE
          /\ Known(id) /\ Status(id) = "downloading"
             => /\ ResumeDownload(id) => lastCall'.ret = FALSE
                /\ PauseDownload(id) => lastCall'.ret = TRUE
                /\ CancelDownload(id) => lastCall'.ret = TRUE]_vars

\* a paused task whose transfer is still running was resumed
C5_Witness ==
    \E id \in Ids :
        /\ Known(id) /\ Status(id) = "downloading"
        /\ wpc[id] = "downloadAsync"
        /\ lastCall = [op |-> "resume", id |-> id, ret |-> TRUE]

\* C6: cancelDownload on a non-terminal task returns true and at once sets
\* cancelFlag, status canceled and error "Canceled"; a canceled task stays
\* canceled whatever the wrapper reports later.
C6_CancelIsFinal ==
    [][\A id \in Ids :
          /\ Known(id) /\ Status(id) \notin Terminal /\ CancelDownload(id)
             => /\ lastCall'.ret = TRUE
                /\ allDownloads'[id].cancelFlag
                /\ allDownloads'[id].status = "canceled"
                /\ allDownloads'[id].error = "Canceled"
          /\ Known(id) /\ Status(id) = "canceled"
             => allDownloads'[id].status = "canceled"]_vars

\* a task was canceled in flight and its wrapper later finished the file
\* and returned true
C6_Witness ==
    \E id \in Ids :
        /\ variant \in {"A", "B"}
        /\ Known(id) /\ Status(id) = "canceled" /\ allDownloads[id].error = "Canceled"
        /\ success[id] = "true"

\* C7: in a Variant C build, once cancelDownload succeeded for a task whose
\* OS-level transfer is in flight, stop() is eventually invoked on that task.
C7_CancelStopsTransfer ==
    \A id \in Ids :
        (/\ variant = "C"
         /\ lastCall = [op |-> "cancel", id |-> id, ret |-> TRUE]
         /\ bg[id] \in {"started", "running"})
        ~> (id \in stopped)

\* C8 (download part): no wrapper downloadVideo call rejects.
DownloadNeverRejects == \A id \in Ids : success[id] # "rejected"

\* C8: no wrapper operation (getVideoInfo, getPlaylistVideos, searchVideos,
\* downloadVideo) of any variant ever rejects.
C8_WrapperNeverRejects ==
    /\ DownloadNeverRejects
    /\ \A c \in DOMAIN calls : calls[c].wrapper # "thrown"

\* C9: no SearchController call rejects; when the wrapper call throws, the
\* call resolves with onResult not invoked and onError (if the caller gave
\* one) invoked exactly once with the error as a string.
C9_ControllerCatches ==
    \A c \in DOMAIN calls :
        /\ calls[c].pc # "rejected"
        /\ calls[c].wrapper = "thrown"
           => /\ calls[c].pc = "resolved"
              /\ calls[c].onResult = 0
              /\ calls[c].onError = (IF calls[c].errorCb THEN 1 ELSE 0)
              /\ calls[c].errorCb => calls[c].errorArg = "Error: session"

\* a wrapper call threw and the caller's onError was invoked
C9_Witness ==
    \E c \in DOMAIN calls :
        /\ calls[c].wrapper = "thrown" /\ calls[c].pc = "resolved"
        /\ calls[c].resultCb /\ calls[c].errorCb /\ calls[c].onError = 1

\* C10: reconnectAttempts never exceeds maxReconnectAttempts, and whenever a
\* reconnect is scheduled it is the next attempt k and its delay is 3000*k ms.
C10_ReconnectCapped ==
    /\ [](reconnectAttempts <= maxReconnectAttempts)
    /\ [][reconnectTimer' \notin {0, reconnectTimer}
          => /\ reconnectAttempts' = reconnectAttempts + 1
             /\ reconnectTimer' = 3000 * reconnectAttempts']_vars

\* ------------------------------------------------------------------------
\* YTDLPWrapper of ytdlWrapper-server.ts used without a controller: its
\* constructor, the restore, local storage, downloadVideo with an error
\* callback, cancelDownload and destroy, over the WebSocketClient above.

\* ids under which an earlier run of the app can have left descriptors
StoredSets == {1..k : k \in 0..MaxRestored}

\* the elements of a set of ids in ascending order
RECURSIVE SetToSeq(_)
SetToSeq(S) ==
    IF S = {} THEN <<>>
    ELSE LET m == CHOOSE x \in S : \A y \in S : x <= y
         IN  <<m>> \o SetToSeq(S \ {m})

\* some socket is open, so that a server message can arrive
Online == \E s \in DOMAIN sockets : sockets[s] = "OPEN"

\* the constructor has run
Constructed == restore # "none"

\* persistActiveDownloads(), called by op for download id, up to its await:
\* the snapshot of the map as the handler leaves it goes to setItem
persistActiveDownloads(op, id) ==
    /\ Len(writes) < MaxWrites
    /\ writes' = Append(writes, [snap |-> backgroundDownloads', by |-> op, id |-> id])

\* cleanupDownload(id) up to its await, called by op
cleanupDownload(op, id) ==
    /\ CleanupDownload(id)
    /\ persistActiveDownloads(op, id)

\* new YTDLPWrapper(cachePath, ...) in a process that finds the descriptors
\* of stored persisted: initializeWebSocket calls wsClient.connect() and
\* registers the handlers, restoreActiveDownloads runs up to its getItem
Constructor(stored, constructed) ==
    /\ variant = "C"
    /\ restore = "none"
    /\ storage' = stored
    /\ restoring' = SetToSeq(stored)
    /\ restore' = "getItem"
    /\ wpc' = [i \in Ids |-> IF i \in stored THEN "previous" ELSE wpc[i]]
    /\ SetClient(connect(Client, constructed).client)
    /\ sockets' = connect(Client, constructed).sockets
    /\ sent' = {}
    /\ UNCHANGED <<searchVars, appVars, cVars, isWebSocketConnected, writes, direct,
                   variant, cachePath, client, allDownloads, downloadHistory, success,
                   completeCalls, completeArg, errorCalls, progressCalls, lastCall>>
    /\ Carry

\* a restore loop that never subscribes
RestoreNextWithoutSubscribe(rest) ==
    /\ restoring' = rest
    /\ IF rest = <<>>
       THEN /\ restore' = "done"
            /\ UNCHANGED backgroundDownloads
       ELSE /\ restore' = "check"
            /\ backgroundDownloads' = backgroundDownloads \cup {Head(rest)}
    /\ sent' = {}
    /\ UNCHANGED subscribed
    /\ Carry

\* restoreActiveDownloads at the top of its loop over rest: the next
\* descriptor enters the map and is subscribed if the wrapper believes the
\* socket connected; then the loop awaits checkForExistingDownloads
RestoreNext(rest) ==
    /\ restoring' = rest
    /\ IF rest = <<>>
       THEN /\ restore' = "done"
            /\ sent' = {}
            /\ UNCHANGED <<backgroundDownloads, subscribed>>
       ELSE /\ restore' = "check"
            /\ backgroundDownloads' = backgroundDownloads \cup {Head(rest)}
            /\ IF isWebSocketConnected
               THEN /\ subscribed' = subscribed \cup {Head(rest)}
                    /\ sent' = send("subscribe", {Head(rest)}, ws, sockets)
               ELSE /\ sent' = {}
                    /\ UNCHANGED subscribed
    /\ Carry

\* AsyncStorage.getItem resolves with what the constructor found stored
RestoreActiveDownloads ==
    /\ restore = "getItem"
    /\ RestoreNext(restoring)
    /\ UNCHANGED <<searchVars, appVars, ctlVars, ws, sockets, reconnectAttempts, reconnectTimer,
                   isIntentionalClose, isWebSocketConnected, storage, writes, direct,
                   progressCallbacks, completeCallbacks, errorCallbacks, bg, stopped, wcancel>>

\* checkForExistingDownloads resolves (or throws: found = FALSE): the task
\* found gets its handlers if its download is still in the map; then the
\* loop goes on
CheckForExistingDownloads(found) ==
    /\ restore = "check"
    /\ bg' = [bg EXCEPT ![Head(restoring)] =
                IF found /\ Head(restoring) \in backgroundDownloads THEN "running" ELSE @]
    /\ RestoreNext(Tail(restoring))
    /\ UNCHANGED <<searchVars, appVars, ctlVars, ws, sockets, reconnectAttempts, reconnectTimer,
                   isIntentionalClose, isWebSocketConnected, storage, writes, direct,
                   progressCallbacks, completeCallbacks, errorCallbacks, stopped, wcancel>>

\* downloadVideo(url, format, progress, complete[, error]) called on the
\* wrapper itself, up to "await YouTubeAPI.initiateDownload"; the backend
\* will name the download id
WrapperDownloadVideo(id, errorCb) ==
    /\ Constructed
    /\ id \in Ids /\ wpc[id] = "idle"
    /\ \A i \in Ids : i < id => wpc[i] # "idle"
    /\ Cardinality({i \in Ids : wpc[i] \notin {"idle", "previous"}}) < MaxDirect
    /\ direct' = [direct EXCEPT ![id].errorCb = errorCb]
    /\ IF cachePath = ""
       THEN /\ wpc' = [wpc EXCEPT ![id] = "returned"]
            /\ success' = [success EXCEPT ![id] = "false"]
       ELSE /\ wpc' = [wpc EXCEPT ![id] = "initiateDownload"]
            /\ success' = [success EXCEPT ![id] = "pending"]
    /\ sent' = {}
    /\ UNCHANGED <<searchVars, appVars, cVars, ws, sockets, reconnectAttempts, reconnectTimer,
                   isIntentionalClose, isWebSocketConnected, storage, writes, restore,
                   restoring, variant, cachePath, client, allDownloads, downloadHistory,
                   completeCalls, completeArg, errorCalls, progressCalls, lastCall>>
    /\ Carry

\* initiateDownload settles. On success the callbacks are stored, the id is
\* subscribed, RNBackgroundDownloader.download starts the task (or throws),
\* the descriptor enters the map and persistActiveDownloads is awaited
Initiated(id, ok, started) ==
    /\ Constructed
    /\ wpc[id] = "initiateDownload"
    /\ IF ~ok
       THEN /\ wpc' = [wpc EXCEPT ![id] = "returned"]
            /\ success' = [success EXCEPT ![id] = "false"]
            /\ sent' = {}
            /\ UNCHANGED <<progressCallbacks, completeCallbacks, errorCallbacks,
                           subscribed, backgroundDownloads, bg, writes>>
       ELSE /\ progressCallbacks' = progressCallbacks \cup {id}
            /\ completeCallbacks' = completeCallbacks \cup {id}
            /\ errorCallbacks' = IF direct[id].errorCb
                                 THEN errorCallbacks \cup {id} ELSE errorCallbacks
            /\ subscribed' = subscribed \cup {id}
            /\ sent' = send("subscribe", {id}, ws, sockets)
            /\ IF started
               THEN /\ backgroundDownloads' = backgroundDownloads \cup {id}
                    /\ bg' = [bg EXCEPT ![id] = "started"]
                    /\ persistActiveDownloads("downloadVideo", id)
                    /\ wpc' = [wpc EXCEPT ![id] = "persistActiveDownloads"]
                    /\ UNCHANGED success
               ELSE /\ wpc' = [wpc EXCEPT ![id] = "returned"]
                    /\ success' = [success EXCEPT ![id] = "false"]
                    /\ UNCHANGED <<backgroundDownloads, bg, writes>>
    /\ UNCHANGED <<searchVars, appVars, ws, sockets, reconnectAttempts, reconnectTimer,
                   isIntentionalClose, isWebSocketConnected, storage, restore,
                   restoring, direct, stopped, wcancel,
                   variant, cachePath, client, allDownloads, downloadHistory,
                   completeCalls, completeArg, errorCalls, progressCalls, lastCall>>
    /\ Carry

\* the oldest AsyncStorage.setItem settles (stored) or rejects, which
\* persistActiveDownloads catches and logs; the call that awaits it goes on:
\* downloadVideo attaches the task handlers and returns true,
\* cancelDownload returns true. The getItem of the constructor was issued
\* before any setItem and settles before it.
SetItem(stored) ==
    /\ writes # <<>>
    /\ restore # "getItem"
    /\ writes' = Tail(writes)
    /\ storage' = IF stored THEN Head(writes).snap ELSE storage
    /\ LET id == Head(writes).id
           op == Head(writes).by
       IN  /\ bg' = [bg EXCEPT ![id] =
                       IF op = "downloadVideo" /\ id \in backgroundDownloads /\ @ = "started"
                       THEN "running" ELSE @]
           /\ wpc' = [wpc EXCEPT ![id] = IF op = "downloadVideo" THEN "returned" ELSE @]
           /\ success' = [success EXCEPT ![id] = IF op = "downloadVideo" THEN "true" ELSE @]
           /\ wcancel' = [wcancel EXCEPT ![id] = IF op = "cancelDownload" THEN "idle" ELSE @]
    /\ sent' = {}
    /\ UNCHANGED <<searchVars, appVars, ws, sockets, reconnectAttempts, reconnectTimer,
                   isIntentionalClose, isWebSocketConnected, restore, restoring, direct,
                   progressCallbacks, completeCallbacks, errorCallbacks, subscribed,
                   backgroundDownloads, stopped,
                   variant, cachePath, client, allDownloads, downloadHistory,
                   completeCalls, completeArg, errorCalls, progressCalls, lastCall>>
    /\ Carry

\* what a handler leaves alone when it only reports and cleans up
CleanupFrame ==
    UNCHANGED <<searchVars, appVars, ctlVars, ws, sockets, reconnectAttempts, reconnectTimer,
                isIntentionalClose, isWebSocketConnected, storage, restore, restoring,
                stopped, wcancel>>

\* the .done handler of attachTaskHandlers up to its await
DoneHandler(id) ==
    /\ Constructed
    /\ bg[id] = "running"
    /\ bg' = [bg EXCEPT ![id] = "moveFile"]
    /\ sent' = {}
    /\ UNCHANGED <<searchVars, appVars, ctlVars, ws, sockets, reconnectAttempts, reconnectTimer,
                   isIntentionalClose, isWebSocketConnected, serverVars,
                   progressCallbacks, completeCallbacks, errorCallbacks, subscribed,
                   backgroundDownloads, stopped, wcancel>>
    /\ Carry

\* the .done handler after moveFileToFinalDestination: the complete
\* callback if one is still stored, then cleanupDownload
DoneHandlerMoved(id) ==
    /\ Constructed
    /\ bg[id] = "moveFile"
    /\ bg' = [bg EXCEPT ![id] = "done"]
    /\ direct' = [direct EXCEPT ![id].complete =
                    IF id \in completeCallbacks THEN @ + 1 ELSE @]
    /\ cleanupDownload("cleanup", id)
    /\ sent' = send("unsubscribe", {id}, ws, sockets)
    /\ CleanupFrame
    /\ Carry

\* the .error handler of attachTaskHandlers: cleanupDownload and nothing else
ErrorHandler(id) ==
    /\ Constructed
    /\ bg[id] = "running"
    /\ bg' = [bg EXCEPT ![id] = "error"]
    /\ cleanupDownload("cleanup", id)
    /\ sent' = send("unsubscribe", {id}, ws, sockets)
    /\ UNCHANGED direct
    /\ CleanupFrame
    /\ Carry

\* a download_complete message for a subscribed id arrives
OnDownloadComplete(id) ==
    /\ Constructed /\ Online
    /\ id \in subscribed
    /\ direct' = [direct EXCEPT ![id].complete =
                    IF id \in completeCallbacks THEN @ + 1 ELSE @]
    /\ cleanupDownload("cleanup", id)
    /\ sent' = send("unsubscribe", {id}, ws, sockets)
    /\ UNCHANGED bg
    /\ CleanupFrame
    /\ Carry

\* a download_error message for a subscribed id arrives
OnDownloadError(id) ==
    /\ Constructed /\ Online
    /\ id \in subscribed
    /\ direct' = [direct EXCEPT ![id].error =
                    IF id \in errorCallbacks THEN @ + 1 ELSE @]
    /\ cleanupDownload("cleanup", id)
    /\ sent' = send("unsubscribe", {id}, ws, sockets)
    /\ UNCHANGED bg
    /\ CleanupFrame
    /\ Carry

\* a download_cancelled message for a subscribed id arrives
OnDownloadCancelled(id) ==
    /\ Constructed /\ Online
    /\ id \in subscribed
    /\ cleanupDownload("cleanup", id)
    /\ sent' = send("unsubscribe", {id}, ws, sockets)
    /\ UNCHANGED <<bg, direct>>
    /\ CleanupFrame
    /\ Carry

\* cancelDownload(id) on the wrapper, for a download found in the map, up
\* to "await YouTubeAPI.cancelDownload"
YTDLPCancelDownload(id) ==
    /\ Constructed
    /\ id \in backgroundDownloads
    /\ wcancel[id] = "idle"
    /\ wcancel' = [wcancel EXCEPT ![id] = "cancelDownload"]
    /\ sent' = {}
    /\ UNCHANGED <<searchVars, appVars, ctlVars, ws, sockets, reconnectAttempts, reconnectTimer,
                   isIntentionalClose, isWebSocketConnected, serverVars,
                   progressCallbacks, completeCallbacks, errorCallbacks, subscribed,
                   backgroundDownloads, bg, stopped>>
    /\ Carry

\* the backend answers the cancel request. If it failed the catch returns
\* false; else a cancel message is sent, the task the descriptor holds (if
\* any) is stopped, and cleanupDownload is awaited before true is returned
CancelAnswered(id, ok) ==
    /\ Constructed
    /\ wcancel[id] = "cancelDownload"
    /\ IF ok
       THEN /\ wcancel' = [wcancel EXCEPT ![id] = "cleanupDownload"]
            /\ stopped' = IF bg[id] # "none" THEN stopped \cup {id} ELSE stopped
            /\ bg' = [bg EXCEPT ![id] = IF @ \in {"started", "running"}
                                        THEN "stopped" ELSE @]
            /\ cleanupDownload("cancelDownload", id)
            /\ sent' = send("cancel", {id}, ws, sockets)
                       \cup send("unsubscribe", {id}, ws, sockets)
       ELSE /\ wcancel' = [wcancel EXCEPT ![id] = "idle"]
            /\ sent' = {}
            /\ UNCHANGED <<stopped, bg, progressCallbacks, completeCallbacks,
                           errorCallbacks, subscribed, backgroundDownloads, writes>>
    /\ UNCHANGED <<searchVars, appVars, ctlVars, ws, sockets, reconnectAttempts, reconnectTimer,
                   isIntentionalClose, isWebSocketConnected, storage, restore,
                   restoring, direct>>
    /\ Carry

\* the callback maps as destroy() leaves them
destroy ==
    /\ progressCallbacks' = {}
    /\ completeCallbacks' = {}
    /\ errorCallbacks' = errorCallbacks

\* destroy(): wsClient.disconnect(), then the maps
Destroy ==
    /\ Constructed
    /\ isIntentionalClose' = TRUE
    /\ reconnectTimer' = 0
    /\ ws' = 0
    /\ sockets' = IF ws # 0 /\ sockets[ws] \in {"CONNECTING", "OPEN"}
                  THEN [sockets EXCEPT ![ws] = "CLOSING"]
                  ELSE sockets
    /\ subscribed' = {}
    /\ sent' = {}
    /\ destroy
    /\ UNCHANGED <<reconnectAttempts, isWebSocketConnected, ctlVars, searchVars, appVars,
                   serverVars, backgroundDownloads, bg, stopped, wcancel>>
    /\ Carry

ServerNext ==
    \/ \E stored \in StoredSets : Constructor(stored, TRUE)
    \/ RestoreActiveDownloads
    \/ \E found \in BOOLEAN : CheckForExistingDownloads(found)
    \/ \E id \in Ids : WrapperDownloadVideo(id, TRUE)
    \/ \E id \in Ids, ok, started \in BOOLEAN : Initiated(id, ok, started)
    \/ \E stored \in BOOLEAN : SetItem(stored)
    \/ \E id \in Ids : DoneHandler(id)
    \/ \E id \in Ids : DoneHandlerMoved(id)
    \/ \E id \in Ids : ErrorHandler(id)
    \/ \E id \in Ids : OnDownloadComplete(id)
    \/ \E id \in Ids : OnDownloadError(id)
    \/ \E id \in Ids : OnDownloadCancelled(id)
    \/ \E id \in Ids : YTDLPCancelDownload(id)
    \/ \E id \in Ids, ok \in BOOLEAN : CancelAnswered(id, ok)
    \/ Destroy
    \/ \E s \in 1..MaxServerSockets : SocketOpens(s)
    \/ \E s \in 1..MaxServerSockets : SocketCloses(s)
    \/ ReconnectTimerFires(TRUE) /\ Len(sockets') <= MaxServerSockets

ServerSpec == Init /\ [][ServerNext]_vars

\* the reads the restore awaits settle; nothing is assumed of the socket,
\* the OS tasks, the server's messages or the user
RestoreFairness ==
    /\ WF_vars(RestoreActiveDownloads)
    /\ WF_vars(\E found \in BOOLEAN : CheckForExistingDownloads(found))

RestoreSpec == ServerSpec /\ RestoreFairness

\* ------------------------------------------------------------------------
\* The app shell (SAF-only revision): initDownloadDir, startDownload and
\* handleChangeSafDirectory.

\* everything but the shell
NotShell == <<dcVars, searchVars, wsVars, serverVars, boxVars, resultVars, libVars>>

\* what the shell's handlers leave alone, the controller instances included
NotShellNorCard == <<NotShell, cardVars>>

\* how the cache directory set-up of initDownloadDir can end: new Directory
\* throws (cacheDir stays null), exists or create throws (cacheDir holds a
\* handle and setCachePath is skipped), or the directory is ready
CacheOutcomes == {"null", "handle", "created"}

\* what AsyncStorage holds under SAF_STORAGE_KEY: nothing, a uri that is
\* still readable, or one that is not
StoredUris == {"absent", "valid", "stale"}

\* the mount effect runs initDownloadDir up to its await of getItem: the
\* storage permission was asked for, the cache directory set up
InitCache(outcome) ==
    /\ initDownloadDir = "mounted"
    /\ initDownloadDir' = "getItem"
    /\ cacheDir' = outcome
    /\ cachePathState' = IF outcome = "created" THEN "cache/" ELSE cachePathState
    /\ UNCHANGED <<isReady, saf, downloadControllerRef, rendered, picking, invocations,
                   lastStart, NotShellNorCard>>

\* the rest of initDownloadDir: a stored uri that is readable is taken, else
\* the user is asked to pick a directory; without a cacheDir the function
\* returns, with a SAF directory the controller is built and isReady set
InitSaf(stored, granted) ==
    /\ initDownloadDir = "getItem"
    /\ initDownloadDir' = "done"
    /\ LET safDirectoryUri == IF stored = "valid" THEN "restored"
                              ELSE IF granted THEN "granted" ELSE "none"
       IN  IF cacheDir # "null" /\ safDirectoryUri # "none"
           THEN /\ saf' = safDirectoryUri
                /\ downloadControllerRef' = TRUE
                /\ isReady' = TRUE
           ELSE UNCHANGED <<saf, downloadControllerRef, isReady>>
    /\ UNCHANGED <<cachePathState, cacheDir, rendered, picking, invocations, lastStart,
                   NotShellNorCard>>

\* React renders: the handlers now close over the current state
Render ==
    /\ rendered' = [isReady |-> isReady, cachePath |-> cachePathState]
    /\ rendered' # rendered
    /\ UNCHANGED <<isReady, cachePathState, cacheDir, saf, downloadControllerRef,
                   initDownloadDir, picking, invocations, lastStart, NotShellNorCard>>

\* startDownload(video, formatType): whether it goes on to downloadVideo
startDownload(ready, ref) == ready /\ ref

\* the user taps a format button on a card
StartDownload ==
    /\ invocations < MaxStarts
    /\ IF startDownload(rendered.isReady, downloadControllerRef)
       THEN /\ invocations' = invocations + 1
            /\ lastStart' = "downloadVideo"
       ELSE /\ lastStart' = "toast"
            /\ UNCHANGED invocations
    /\ UNCHANGED <<isReady, cachePathState, cacheDir, saf, downloadControllerRef,
                   initDownloadDir, rendered, picking, NotShellNorCard>>

\* the user taps the folder button: handleChangeSafDirectory up to its await
\* of the picker
HandleChangeSafDirectory ==
    /\ ~picking.on
    /\ picking' = [on |-> TRUE, cachePath |-> rendered.cachePath]
    /\ UNCHANGED <<isReady, cachePathState, cacheDir, saf, downloadControllerRef,
                   initDownloadDir, rendered, invocations, lastStart, NotShellNorCard>>

\* the picker answers (or throws: granted = FALSE): a granted directory is
\* stored and, if the closure holds a cachePath, a new controller is built
\* on it and isReady set
DirectoryPicked(granted) ==
    /\ picking.on
    /\ picking' = [on |-> FALSE, cachePath |-> ""]
    /\ IF granted /\ picking.cachePath # ""
       THEN /\ controller < MaxControllers
            /\ saf' = "granted"
            /\ downloadControllerRef' = TRUE
            /\ controller' = controller + 1
            /\ isReady' = TRUE
       ELSE UNCHANGED <<saf, downloadControllerRef, controller, isReady>>
    /\ UNCHANGED <<cachePathState, cacheDir, initDownloadDir, rendered, invocations,
                   lastStart, NotShell, created, downloads>>

ShellNext ==
    \/ \E outcome \in CacheOutcomes : InitCache(outcome)
    \/ \E stored \in StoredUris, granted \in BOOLEAN : InitSaf(stored, granted)
    \/ Render
    \/ StartDownload
    \/ HandleChangeSafDirectory
    \/ \E granted \in BOOLEAN : DirectoryPicked(granted)

ShellSpec == Init /\ [][ShellNext]_vars

\* ------------------------------------------------------------------------
\* The search box of the app shell: isUrl, isPlaylistUrl and handleSearch.
\* A text is a sequence of pieces: white space, the letters of "http" in
\* lower or mixed case, an "s" in either case, "://", "list=" after "?" or
\* "&" or after a letter, the same in upper case, and other text.

Pieces == {" ", "http", "HTtp", "s", "S", "://", "?list=", "&list=", "xlist=", "?LIST=", "x"}

\* String.prototype.trim
RECURSIVE trimStart(_)
trimStart(t) == IF t # <<>> /\ Head(t) = " " THEN trimStart(Tail(t)) ELSE t

RECURSIVE trimEnd(_)
trimEnd(t) ==
    IF t # <<>> /\ t[Len(t)] = " " THEN trimEnd(SubSeq(t, 1, Len(t) - 1)) ELSE t

trim(t) == trimEnd(trimStart(t))

\* /^https?:\/\//i.test(t)
SchemeTest(t) ==
    /\ Len(t) >= 2
    /\ t[1] \in {"http", "HTtp"}
    /\ \/ t[2] = "://"
       \/ Len(t) >= 3 /\ t[2] \in {"s", "S"} /\ t[3] = "://"

\* an isUrl that tests the value as typed
isUrlUntrimmed(value) == SchemeTest(value)

\* isUrl(value)
isUrl(value) == SchemeTest(trim(value))

\* isPlaylistUrl(value): /[?&]list=/.test(value)
isPlaylistUrl(value) == \E i \in DOMAIN value : value[i] \in {"?list=", "&list="}

\* the user types into the search box: onChangeText is setQuery
SetQuery(piece) ==
    /\ ~loading /\ invoked = <<>>
    /\ Len(queryText) < MaxQueryLen
    /\ queryText' = Append(queryText, piece)
    /\ UNCHANGED <<loading, invoked, dcVars, searchVars, wsVars, serverVars, libVars, cardVars, shellVars,
                   resultVars>>

\* the user taps search: handleSearch on the text typed, up to the await of
\* the one controller call it makes (none for a blank query)
HandleSearch(text) ==
    /\ ~loading /\ invoked = <<>>
    /\ text = queryText
    /\ UNCHANGED queryText
    /\ IF trim(text) = <<>>
       THEN /\ invoked' = <<>>
            /\ UNCHANGED loading
       ELSE /\ loading' = TRUE
            /\ invoked' =
                 IF isUrl(text) /\ isPlaylistUrl(text)
                 THEN <<[op |-> "getPlaylistVideos", arg |-> text, maxResults |-> 0]>>
                 ELSE IF isUrl(text)
                      THEN <<[op |-> "getVideoInfo", arg |-> text, maxResults |-> 0]>>
                      ELSE <<[op |-> "searchVideos", arg |-> text, maxResults |-> 20]>>
    /\ UNCHANGED <<dcVars, searchVars, wsVars, serverVars, libVars, cardVars, shellVars, resultVars>>

\* the controller call settles (it never rejects): finally setLoading(false)
HandleSearchSettled ==
    /\ loading
    /\ loading' = FALSE
    /\ UNCHANGED <<queryText, invoked, dcVars, searchVars, wsVars, serverVars, libVars, cardVars, shellVars,
                   resultVars>>

BoxNext ==
    \/ \E piece \in Pieces : SetQuery(piece)
    \/ HandleSearch(queryText)
    \/ HandleSearchSettled

BoxSpec == Init /\ [][BoxNext]_vars

\* ------------------------------------------------------------------------
\* searchVideos(query, maxResults) of the three wrappers, as a function of
\* what the engine (Variants A and B) or the backend (Variant C) answers.

\* a video id, and what an item of the engine holds where it has none
VideoId == "dQw4w9WgXcQ"

EngineIds == {Undefined, VideoId}

\* the id fields of an item of the engine's search result
Items == [id : EngineIds, video_id : EngineIds, videoId : EngineIds]

\* sequences of up to n elements of S
UpTo(S, n) == UNION {[1..k -> S] : k \in 0..n}

\* what client.search / yt.search does: it throws, its result has no videos
\* array, or it has one
EngineAnswers ==
    {[kind |-> k, videos |-> <<>>] : k \in {"throws", "undefined"}}
    \cup {[kind |-> "videos", videos |-> v] : v \in UpTo(Items, MaxEngineResults)}

\* a || b of JavaScript on ids
Or(a, b) == IF a \in {Undefined, ""} THEN b ELSE a

\* Array.prototype.slice(0, n) for n >= 0
slice(videos, n) == SubSeq(videos, 1, IF n < Len(videos) THEN n ELSE Len(videos))

\* getItemId(item) of Variant A
getItemId(item) ==
    LET id == Or(Or(item.id, item.video_id), item.videoId)
    IN  IF id = Undefined THEN "" ELSE id

EmptyResult(q) == [delivered |-> TRUE, videos |-> <<>>, query |-> q]

\* Variant A
searchVideosA(q, maxResults, answer) ==
    IF answer.kind = "throws" THEN EmptyResult(q)
    ELSE LET kept == slice(answer.videos, maxResults)
         IN  [delivered |-> TRUE,
              videos |-> [i \in DOMAIN kept |-> [videoId |-> getItemId(kept[i])]],
              query |-> q]

\* Variant B
searchVideosB(q, maxResults, answer) ==
    IF answer.kind \in {"throws", "undefined"} \/ answer.videos = <<>>
    THEN EmptyResult(q)
    ELSE LET kept == slice(answer.videos, maxResults)
         IN  [delivered |-> TRUE,
              videos |-> [i \in DOMAIN kept |->
                            [videoId |-> Or(Or(kept[i].video_id, kept[i].id), "")]],
              query |-> q]

\* POST /api/search of the backend: at most maxResults of the videos found,
\* each with its id, and the query it was asked
BackendSearch(q, maxResults, found) ==
    [videos |-> slice(found, maxResults), query |-> q]

\* what the backend call does: it fails, or the search finds videos
BackendAnswers ==
    {[kind |-> "throws", videos |-> <<>>]}
    \cup {[kind |-> "videos", videos |-> v] :
            v \in UpTo({item \in Items : item.videoId = VideoId}, MaxEngineResults)}

\* Variant C: YouTubeAPI.searchVideos maps the response, the wrapper
\* catches its failure
searchVideosC(q, maxResults, answer) ==
    IF answer.kind = "throws" THEN EmptyResult(q)
    ELSE LET response == BackendSearch(q, maxResults, answer.videos)
         IN  [delivered |-> TRUE,
              videos |-> [i \in DOMAIN response.videos |->
                            [videoId |-> response.videos[i].videoId]],
              query |-> response.query]

\* SearchController.searchVideos(q, maxResults, callback) on the wrapper of
\* the build: what the callback receives
SearchVideosOnWrapper(q, maxResults, answer) ==
    /\ ~request.made
    /\ answer \in (IF variant = "C" THEN BackendAnswers ELSE EngineAnswers)
    /\ request' = [made |-> TRUE, query |-> q, maxResults |-> maxResults,
                   answer |-> answer]
    /\ result' = CASE variant = "A" -> searchVideosA(q, maxResults, answer)
                   [] variant = "B" -> searchVideosB(q, maxResults, answer)
                   [] variant = "C" -> searchVideosC(q, maxResults, answer)
    /\ UNCHANGED <<dcVars, searchVars, wsVars, serverVars, libVars, cardVars, shellVars, boxVars>>

ResultNext ==
    \E q \in Queries, maxResults \in 0..MaxAsked,
       answer \in EngineAnswers \cup BackendAnswers :
        SearchVideosOnWrapper(q, maxResults, answer)

ResultSpec == Init /\ [][ResultNext]_vars

\* ------------------------------------------------------------------------
\* pickStreamUrl(streaming, formatType) of Variant A.

\* mime types of the engine's stream descriptors, as their parts; the empty
\* one stands for a descriptor without mime_type (mime_type?.includes(..)
\* is falsy for it as it is for an empty string)
MimeTypes ==
    {<<>>, <<"audio", "/", "mp4">>, <<"audio", "/", "webm">>,
     <<"video", "/", "mp4">>, <<"video", "/", "webm">>}

\* String.prototype.includes over the parts of a mime type
includes(mime, needle) ==
    \E k \in 0..(Len(mime) - Len(needle)) :
        \A j \in 1..Len(needle) : mime[k + j] = needle[j]

\* a stream descriptor: whether it has a url, its mime type, its bitrate
\* (0 when it declares none: bitrate || 0) and has_audio
Formats ==
    [hasUrl : BOOLEAN, mime_type : MimeTypes, bitrate : 0..MaxBitrate,
     has_audio : BOOLEAN]

\* [...formats, ...adaptive_formats] with the position of each descriptor
\* in the combined list as its url
Streamings == UpTo(Formats, MaxFormats)

\* Array.prototype.filter on the positions of a list: the positions the
\* predicate keeps, in their order
filter(list, kept) == SelectSeq(list, LAMBDA i : i \in kept)

\* the comparator with its operands exchanged
compareAscending(a, b, streaming) == streaming[a].bitrate - streaming[b].bitrate

\* (a, b) => (b.bitrate || 0) - (a.bitrate || 0)
compare(a, b, streaming) == streaming[b].bitrate - streaming[a].bitrate

\* one step of the stable sort: x goes behind every element that does not
\* compare after it
RECURSIVE insert(_, _, _)
insert(x, sorted, streaming) ==
    IF sorted = <<>> THEN <<x>>
    ELSE IF compare(x, Head(sorted), streaming) < 0
         THEN <<x>> \o sorted
         ELSE <<Head(sorted)>> \o insert(x, Tail(sorted), streaming)

\* audioFormats.sort(compare)
RECURSIVE sort(_, _)
sort(list, streaming) ==
    IF list = <<>> THEN <<>>
    ELSE insert(list[Len(list)], sort(SubSeq(list, 1, Len(list) - 1), streaming),
                streaming)

Null == [null |-> TRUE, url |-> 0, extension |-> ""]

pickStreamUrl(streaming, formatType) ==
    LET all == [i \in 1..Len(streaming) |-> i]
        HasUrl == {i \in DOMAIN streaming : streaming[i].hasUrl}
        formats == filter(all, HasUrl)
        IsAudio == {i \in DOMAIN streaming :
                       includes(streaming[i].mime_type, <<"audio">>)}
        IsMp4 == {i \in DOMAIN streaming :
                     includes(streaming[i].mime_type, <<"video", "/", "mp4">>)}
        preferred == sort(filter(formats, IsAudio), streaming)
        mp4Formats == filter(formats, IsMp4)
        HasAudio == {i \in DOMAIN streaming : streaming[i].has_audio}
        withAudio == filter(mp4Formats, HasAudio)
    IN  IF formats = <<>> THEN Null
        ELSE IF formatType = "mp3"
        THEN LET chosen == IF preferred # <<>> THEN preferred[1] ELSE formats[1]
             IN  [null |-> FALSE, url |-> chosen,
                  extension |->
                      IF includes(streaming[chosen].mime_type, <<"audio", "/", "mp4">>)
                      THEN "m4a" ELSE "webm"]
        ELSE LET chosen == IF withAudio # <<>> THEN withAudio[1]
                           ELSE IF mp4Formats # <<>> THEN mp4Formats[1]
                           ELSE formats[1]
             IN  [null |-> FALSE, url |-> chosen, extension |-> "mp4"]

\* downloadVideo of Variant A picks the stream of the info it fetched
PickStreamUrl(streaming, formatType) ==
    /\ variant = "A"
    /\ ~request.made
    /\ request' = [made |-> TRUE, streaming |-> streaming, formatType |-> formatType]
    /\ result' = [delivered |-> TRUE, chosen |-> pickStreamUrl(streaming, formatType)]
    /\ UNCHANGED <<dcVars, searchVars, wsVars, serverVars, libVars, cardVars, shellVars, boxVars>>

PickNext ==
    /\ variant = "A" /\ ~request.made
    /\ \E streaming \in Streamings, formatType \in {"mp4", "mp3"} :
        PickStreamUrl(streaming, formatType)

PickSpec == Init /\ [][PickNext]_vars

\* ------------------------------------------------------------------------
\* One downloadVideo(url, formatType, progressCallback, completeCallback)
\* call on the wrapper of Variant B, one action per await.

Heights == {240, 480, 1080}

\* the stream descriptors of a video: audio ones with a bitrate, video ones
\* with a height; each with or without a url, a decipher function and a
\* signature_cipher that holds a url
BDescriptors ==
    {[mime_type |-> <<"audio", "/", "mp4">>, bitrate |-> b, height |-> 0,
      hasUrl |-> u, hasDecipher |-> d, cipherUrl |-> c] :
        b \in 0..MaxBitrate, u \in BOOLEAN, d \in BOOLEAN, c \in BOOLEAN}
    \cup
    {[mime_type |-> <<"video", "/", "mp4">>, bitrate |-> 0, height |-> h,
      hasUrl |-> u, hasDecipher |-> d, cipherUrl |-> c] :
        h \in Heights, u \in BOOLEAN, d \in BOOLEAN, c \in BOOLEAN}

\* what yt.getInfo resolves with: playability_status.status ("" when there
\* is none), whether it has a player, and streaming_data with its combined
\* formats and adaptive_formats
VideoInfos ==
    {[status |-> st, player |-> pl, streaming_data |-> TRUE, formats |-> f] :
        st \in {"", "OK", "UNPLAYABLE", "LOGIN_REQUIRED"}, pl \in BOOLEAN,
        f \in UpTo(BDescriptors, MaxBFormats)}
    \cup
    {[status |-> st, player |-> pl, streaming_data |-> FALSE, formats |-> <<>>] :
        st \in {"", "OK", "UNPLAYABLE", "LOGIN_REQUIRED"}, pl \in BOOLEAN}

\* (a, b) => (Number(b.bitrate) || 0) - (Number(a.bitrate) || 0)
byBitrate(a, b, formats) == formats[b].bitrate - formats[a].bitrate

\* the score of a height: itself between 360 and 720, 0 outside
score(height) == IF height <= 720 /\ height >= 360 THEN height ELSE 0

\* the comparator of the video formats
byHeight(a, b, formats) ==
    LET aScore == score(formats[a].height)
        bScore == score(formats[b].height)
    IN  IF aScore > 0 /\ bScore > 0 THEN bScore - aScore
        ELSE IF aScore > 0 THEN -1
        ELSE IF bScore > 0 THEN 1
        ELSE formats[b].height - formats[a].height

\* Array.prototype.sort with a comparator: stable, by insertion
RECURSIVE insertBy(_, _, _)
insertBy(x, sorted, compareFn) ==
    IF sorted = <<>> THEN <<x>>
    ELSE IF compareFn[x, Head(sorted)] < 0
         THEN <<x>> \o sorted
         ELSE <<Head(sorted)>> \o insertBy(x, Tail(sorted), compareFn)

RECURSIVE sortBy(_, _)
sortBy(list, compareFn) ==
    IF list = <<>> THEN <<>>
    ELSE insertBy(list[Len(list)],
                  sortBy(SubSeq(list, 1, Len(list) - 1), compareFn), compareFn)

\* the position of the format downloadVideo selects, 0 when it returns
\* false for want of one
selectFormat(formats, type) ==
    LET all == [i \in 1..Len(formats) |-> i]
        IsAudio == {i \in DOMAIN formats :
                       includes(formats[i].mime_type, <<"audio">>)}
        IsVideo == {i \in DOMAIN formats :
                       includes(formats[i].mime_type, <<"video">>)}
        audioFormats == filter(all, IsAudio)
        videoFormats == filter(all, IsVideo)
    IN  IF type = "mp3"
        THEN IF audioFormats = <<>> THEN 0
             ELSE sortBy(audioFormats,
                         [a, b \in DOMAIN formats |-> byBitrate(a, b, formats)])[1]
        ELSE IF videoFormats = <<>> THEN 0
             ELSE sortBy(videoFormats,
                         [a, b \in DOMAIN formats |-> byHeight(a, b, formats)])[1]

\* the call returns r
Return(r) ==
    /\ bpc' = "returned"
    /\ returned' = r

\* return false
Abort ==
    /\ Return("false")
    /\ UNCHANGED <<downloadUrl, transfer, timeoutTimer, completed>>

\* downloadUrl is set: the call goes on to look at the cache directory
Proceed ==
    /\ bpc' = "getInfoAsync"
    /\ downloadUrl' = selectedFormat'
    /\ UNCHANGED <<transfer, timeoutTimer, returned, completed>>

\* the inspection of signature_cipher and, with no url after it, the url of
\* the first format that has one
LastResortOtherFormat(att) ==
    LET withUrl == {i \in DOMAIN videoInfo'.formats : videoInfo'.formats[i].hasUrl}
    IN  IF videoInfo'.formats[selectedFormat'].cipherUrl /\ videoInfo'.player
        THEN attempts' = [att EXCEPT !.cipher = "url"] /\ Proceed
        ELSE /\ attempts' = [att EXCEPT !.cipher = "failed"]
             /\ IF withUrl = {} THEN Abort
                ELSE /\ bpc' = "getInfoAsync"
                     /\ downloadUrl' = CHOOSE i \in withUrl : \A j \in withUrl : i <= j
                     /\ UNCHANGED <<transfer, timeoutTimer, returned, completed>>

\* the inspection of signature_cipher and, with no url after it, the return
LastResort(att) ==
    IF videoInfo'.formats[selectedFormat'].cipherUrl /\ videoInfo'.player
    THEN attempts' = [att EXCEPT !.cipher = "url"] /\ Proceed
    ELSE attempts' = [att EXCEPT !.cipher = "failed"] /\ Abort

NotExtract == <<dcVars, searchVars, wsVars, serverVars, shellVars, boxVars, resultVars,
                cardVars, tubeVars, moveVars, cacheVars>>

\* downloadVideo up to its first await
BDownloadVideo(validUrl, type) ==
    /\ variant = "B"
    /\ bpc = "idle"
    /\ requestedFormat' = type
    /\ IF validUrl /\ cachePath # ""
       THEN bpc' = "getInnertubeInstance" /\ UNCHANGED returned
       ELSE Return("false")
    /\ UNCHANGED <<videoInfo, selectedFormat, attempts, downloadUrl, transfer,
                   timeoutTimer, completed>>
    /\ UNCHANGED NotExtract

\* await getInnertubeInstance() settles
BInnertube(ok) ==
    /\ bpc = "getInnertubeInstance"
    /\ IF ok THEN bpc' = "getInfo" /\ UNCHANGED returned
       ELSE Return("false")
    /\ UNCHANGED <<videoInfo, requestedFormat, selectedFormat, attempts, downloadUrl,
                   transfer, timeoutTimer, completed>>
    /\ UNCHANGED NotExtract

\* await yt.getInfo(videoId) settles: the playability check, the selection
\* of a format, and the first decipher call or the last resort
BGetInfo(outcome, info) ==
    /\ bpc = "getInfo"
    /\ UNCHANGED requestedFormat
    /\ IF outcome # "info"
       THEN Abort /\ UNCHANGED <<videoInfo, selectedFormat, attempts>>
       ELSE /\ videoInfo' = info
            /\ IF \/ info.status \in {"UNPLAYABLE", "LOGIN_REQUIRED"}
                  \/ ~info.streaming_data
                  \/ info.formats = <<>>
               THEN Abort /\ UNCHANGED <<selectedFormat, attempts>>
               ELSE /\ selectedFormat' = selectFormat(info.formats, requestedFormat)
                    /\ IF selectedFormat' = 0
                       THEN Abort /\ UNCHANGED attempts
                       ELSE IF info.formats[selectedFormat'].hasUrl
                       THEN Proceed /\ UNCHANGED attempts
                       ELSE IF info.formats[selectedFormat'].hasDecipher
                       THEN /\ bpc' = "decipher"
                            /\ UNCHANGED <<attempts, downloadUrl, transfer,
                                           timeoutTimer, returned, completed>>
                       ELSE LastResort(attempts)
    /\ UNCHANGED NotExtract

\* await selectedFormat.decipher(videoInfo.player) settles
BDeciphered(outcome) ==
    /\ bpc = "decipher"
    /\ UNCHANGED <<videoInfo, requestedFormat, selectedFormat>>
    /\ attempts' = [attempts EXCEPT !.decipher = outcome]
    /\ IF outcome = "url" THEN Proceed
       ELSE /\ bpc' = "decipherNull"
            /\ UNCHANGED <<downloadUrl, transfer, timeoutTimer, returned, completed>>
    /\ UNCHANGED NotExtract

\* await selectedFormat.decipher(null) settles
BDecipheredNull(outcome) ==
    /\ bpc = "decipherNull"
    /\ UNCHANGED <<videoInfo, requestedFormat, selectedFormat>>
    /\ IF outcome = "url"
       THEN attempts' = [attempts EXCEPT !.decipherNull = outcome] /\ Proceed
       ELSE LastResort([attempts EXCEPT !.decipherNull = outcome])
    /\ UNCHANGED NotExtract

\* await FileSystem.getInfoAsync(this.cachePath) settles: the transfer and
\* the 300 s timer are started
BCacheDirChecked(ok) ==
    /\ bpc = "getInfoAsync"
    /\ IF ok
       THEN /\ bpc' = "race"
            /\ transfer' = "running"
            /\ timeoutTimer' = "pending"
            /\ UNCHANGED returned
       ELSE Return("false") /\ UNCHANGED <<transfer, timeoutTimer>>
    /\ UNCHANGED <<videoInfo, requestedFormat, selectedFormat, attempts, downloadUrl,
                   completed>>
    /\ UNCHANGED NotExtract

\* the transfer finishes or fails: downloadPromise settles, and with it the
\* race if the timer has not settled it
TransferSettles(ok) ==
    /\ transfer = "running"
    /\ transfer' = IF ok THEN "finished" ELSE "failed"
    /\ bpc' = IF bpc # "race" THEN bpc ELSE IF ok THEN "move" ELSE "partial"
    /\ UNCHANGED <<videoInfo, requestedFormat, selectedFormat, attempts, downloadUrl,
                   timeoutTimer, returned, completed>>
    /\ UNCHANGED NotExtract

\* 300 s after the transfer started the timer fires and the race is not
\* rejected by it
TimeoutWithoutReject ==
    /\ timeoutTimer = "pending"
    /\ timeoutTimer' = IF bpc = "race" THEN "fired" ELSE "late"
    /\ UNCHANGED bpc
    /\ UNCHANGED <<videoInfo, requestedFormat, selectedFormat, attempts, downloadUrl,
                   transfer, returned, completed>>
    /\ UNCHANGED NotExtract

\* 300 s after the transfer started: timeoutPromise rejects, and with it
\* the race if the transfer has not settled it ("fired"; "late" when it has)
TimeoutFires ==
    /\ timeoutTimer = "pending"
    /\ timeoutTimer' = IF bpc = "race" THEN "fired" ELSE "late"
    /\ bpc' = IF bpc = "race" THEN "partial" ELSE bpc
    /\ UNCHANGED <<videoInfo, requestedFormat, selectedFormat, attempts, downloadUrl,
                   transfer, returned, completed>>
    /\ UNCHANGED NotExtract

\* the race was rejected: await FileSystem.getInfoAsync(cacheFilePath)
\* settles, either way, and the error is thrown on to the outer catch
BPartialInfo ==
    /\ bpc = "partial"
    /\ Return("false")
    /\ UNCHANGED <<videoInfo, requestedFormat, selectedFormat, attempts, downloadUrl,
                   transfer, timeoutTimer, completed>>
    /\ UNCHANGED NotExtract

\* the race was won by the transfer: await moveFileToFinalDestination(..)
\* resolves, the completeCallback is invoked
BMoved ==
    /\ bpc = "move"
    /\ completed' = completed + 1
    /\ Return("true")
    /\ UNCHANGED <<videoInfo, requestedFormat, selectedFormat, attempts, downloadUrl,
                   transfer, timeoutTimer>>
    /\ UNCHANGED NotExtract

ExtractNext ==
    \/ \E validUrl \in BOOLEAN, type \in {"mp4", "mp3"} : BDownloadVideo(validUrl, type)
    \/ \E ok \in BOOLEAN : BInnertube(ok)
    \/ bpc = "getInfo" /\ \E outcome \in {"throws", "null", "info"}, info \in VideoInfos :
                            BGetInfo(outcome, info)
    \/ \E outcome \in {"url", "empty", "throws"} : BDeciphered(outcome)
    \/ \E outcome \in {"url", "empty", "throws"} : BDecipheredNull(outcome)
    \/ \E ok \in BOOLEAN : BCacheDirChecked(ok)
    \/ \E ok \in BOOLEAN : TransferSettles(ok)
    \/ TimeoutFires
    \/ BPartialInfo
    \/ BMoved

ExtractSpec == Init /\ [][ExtractNext]_vars

\* the stat of the partial file is a local file system call: it settles
ExtractFairness == WF_vars(BPartialInfo)

ExtractLiveSpec == ExtractSpec /\ ExtractFairness

\* ------------------------------------------------------------------------
\* formatDuration(duration), on strings as sequences of characters.

Digits == <<"0", "1", "2", "3", "4", "5", "6", "7", "8", "9">>

\* String(n) of JavaScript for a non-negative integer n
RECURSIVE StringOfNumber(_)
StringOfNumber(n) ==
    IF n < 10 THEN <<Digits[n + 1]>>
    ELSE StringOfNumber(n \div 10) \o <<Digits[(n % 10) + 1]>>

\* padStart that leaves the string as it is
padStartNothing(s, targetLength, padString) == s

\* String.prototype.padStart with a pad string of one character
padStart(s, targetLength, padString) ==
    IF Len(s) >= targetLength THEN s
    ELSE [i \in 1..(targetLength - Len(s)) |-> padString] \o s

\* the text "Unknown"
Unknown == <<"U", "n", "k", "n", "o", "w", "n">>

formatDuration(duration) ==
    IF duration < 0 THEN Unknown
    ELSE LET hours == duration \div 3600
             minutes == (duration % 3600) \div 60
             seconds == duration % 60
         IN  IF hours > 0
             THEN StringOfNumber(hours) \o <<":">> \o padStart(StringOfNumber(minutes), 2, "0")
                  \o <<":">> \o padStart(StringOfNumber(seconds), 2, "0")
             ELSE StringOfNumber(minutes) \o <<":">> \o padStart(StringOfNumber(seconds), 2, "0")

\* a video card renders the duration of its video
FormatDuration(duration) ==
    /\ ~request.made
    /\ request' = [made |-> TRUE, duration |-> duration]
    /\ result' = [delivered |-> TRUE, text |-> formatDuration(duration)]
    /\ UNCHANGED <<dcVars, searchVars, wsVars, serverVars, libVars, cardVars, shellVars, boxVars>>

DurationNext ==
    /\ ~request.made
    /\ \E duration \in (0 - MaxNegative)..MaxDuration : FormatDuration(duration)

DurationSpec == Init /\ [][DurationNext]_vars

\* ------------------------------------------------------------------------
\* The cards of the App: the format buttons, the downloads state they are
\* disabled by, and the tasks of the controller instances.

Videos == {"dQw4w9WgXcQ", "9bZkp7q19f0"}

NonTerminal == {"queued", "downloading", "paused"}

\* getAllDownloads() of downloadControllerRef.current: the tasks of the
\* instance in use
getAllDownloads == {i \in DOMAIN created : created[i].owner = controller}

\* hasActiveDownload of the card of a video, over the tasks in the downloads
\* state with the status they have when the card is rendered
hasActiveDownload(video) ==
    \E i \in downloads : created[i].video = video /\ created[i].status \in NonTerminal

\* the disabled prop of the card of a video
disabled(video) == ~rendered.isReady \/ hasActiveDownload(video)

\* setDownloads([...downloadControllerRef.current.getAllDownloads()])
SetDownloads ==
    downloads' = IF downloadControllerRef THEN getAllDownloads' ELSE downloads

NotCard == <<dcVars, searchVars, wsVars, serverVars, shellVars, boxVars, resultVars,
             libVars>>

\* the user presses the MP4 or MP3 button of a card that is not disabled:
\* startDownload up to the await inside the controller's downloadVideo
PressFormatButton(video, type) ==
    /\ Len(created) < MaxCardTasks
    /\ ~disabled(video)
    /\ startDownload(rendered.isReady, downloadControllerRef)
    /\ created' = Append(created, [video |-> video, formatType |-> type,
                                   status |-> "downloading", owner |-> controller,
                                   settled |-> FALSE])
    /\ UNCHANGED <<controller, downloads, NotCard>>

\* the wrapper reports progress on a task: the progress callback of
\* startDownload refreshes the downloads state
ProgressCallback(id) ==
    /\ id \in DOMAIN created
    /\ ~created[id].settled
    /\ UNCHANGED <<created, controller>>
    /\ SetDownloads
    /\ downloads' # downloads
    /\ UNCHANGED NotCard

\* the wrapper's downloadVideo settles: on success the completion lambda
\* runs (it completes a task that was not canceled), on failure the
\* controller marks the task; startDownload refreshes the downloads state
WrapperSettles(id, ok) ==
    /\ id \in DOMAIN created
    /\ ~created[id].settled
    /\ created' = [created EXCEPT ![id].settled = TRUE,
                                  ![id].status =
                                      IF @ = "canceled" THEN @
                                      ELSE IF ok THEN "completed" ELSE "error"]
    /\ UNCHANGED controller
    /\ SetDownloads
    /\ UNCHANGED NotCard

\* the 500 ms interval of the mount effect
RefreshInterval ==
    /\ downloadControllerRef
    /\ UNCHANGED <<created, controller>>
    /\ SetDownloads
    /\ downloads' # downloads
    /\ UNCHANGED NotCard

\* the user presses pause/resume on a row of the downloads list
HandlePauseResume(id) ==
    /\ id \in downloads
    /\ downloadControllerRef
    /\ id \in getAllDownloads
    /\ created' = [created EXCEPT ![id].status =
                      IF @ = "paused" THEN "downloading"
                      ELSE IF @ \in {"downloading", "queued"} THEN "paused" ELSE @]
    /\ UNCHANGED controller
    /\ SetDownloads
    /\ UNCHANGED NotCard

\* the user presses cancel on a row of the downloads list
HandleCancel(id) ==
    /\ id \in downloads
    /\ downloadControllerRef
    /\ created' = IF id \in getAllDownloads /\ created[id].status \in NonTerminal
                  THEN [created EXCEPT ![id].status = "canceled"]
                  ELSE created
    /\ UNCHANGED controller
    /\ SetDownloads
    /\ <<created', downloads'>> # <<created, downloads>>
    /\ UNCHANGED NotCard

CardNext ==
    \/ \E outcome \in CacheOutcomes : InitCache(outcome)
    \/ \E stored \in StoredUris, granted \in BOOLEAN : InitSaf(stored, granted)
    \/ Render
    \/ HandleChangeSafDirectory
    \/ \E granted \in BOOLEAN : DirectoryPicked(granted)
    \/ \E video \in Videos, type \in {"mp4", "mp3"} : PressFormatButton(video, type)
    \/ \E id \in 1..MaxCardTasks : ProgressCallback(id)
    \/ \E id \in 1..MaxCardTasks, ok \in BOOLEAN : WrapperSettles(id, ok)
    \/ RefreshInterval
    \/ \E id \in 1..MaxCardTasks : HandlePauseResume(id)
    \/ \E id \in 1..MaxCardTasks : HandleCancel(id)

CardSpec == Init /\ [][CardNext]_vars

\* ------------------------------------------------------------------------
\* Variant B: getInnertubeInstance() and resetInnertubeInstance().

NotTube == <<dcVars, searchVars, wsVars, serverVars, shellVars, boxVars, resultVars,
             cardVars, extractVars, moveVars, cacheVars>>

\* resetInnertubeInstance()
ResetInnertubeInstance ==
    /\ resets < MaxResets
    /\ resets' = resets + 1
    /\ innertube' = 0
    /\ initPromise' = 0
    /\ UNCHANGED <<creations, tubeCalls>>
    /\ UNCHANGED NotTube

\* getInnertubeInstance() that does not look at initPromise
GetInnertubeWithoutPromise ==
    /\ Len(tubeCalls) < MaxTubeCalls
    /\ IF innertube # 0
       THEN /\ tubeCalls' = Append(tubeCalls, [state |-> "returned", on |-> 0,
                                               got |-> innertube, resets |-> resets])
            /\ UNCHANGED <<initPromise, creations>>
       ELSE /\ creations' = Append(creations, [state |-> "pending", resets |-> resets])
            /\ initPromise' = Len(creations) + 1
            /\ tubeCalls' = Append(tubeCalls, [state |-> "creating",
                                               on |-> Len(creations) + 1,
                                               got |-> 0, resets |-> resets])
    /\ UNCHANGED <<innertube, resets>>
    /\ UNCHANGED NotTube

\* getInnertubeInstance() up to its return or its await: the cached
\* instance, the pending promise, or a new Innertube.create()
GetInnertube ==
    /\ Len(tubeCalls) < MaxTubeCalls
    /\ IF innertube # 0
       THEN /\ tubeCalls' = Append(tubeCalls, [state |-> "returned", on |-> 0,
                                               got |-> innertube, resets |-> resets])
            /\ UNCHANGED <<initPromise, creations>>
       ELSE IF initPromise # 0
       THEN /\ tubeCalls' = Append(tubeCalls, [state |-> "waiting", on |-> initPromise,
                                               got |-> 0, resets |-> resets])
            /\ UNCHANGED <<initPromise, creations>>
       ELSE /\ creations' = Append(creations, [state |-> "pending", resets |-> resets])
            /\ initPromise' = Len(creations) + 1
            /\ tubeCalls' = Append(tubeCalls, [state |-> "creating",
                                               on |-> Len(creations) + 1,
                                               got |-> 0, resets |-> resets])
    /\ UNCHANGED <<innertube, resets>>
    /\ UNCHANGED NotTube

\* Innertube.create() number k settles: the call that made it stores the
\* instance, or clears initPromise and throws; the calls that returned its
\* promise settle with it
CreateSettles(k, ok) ==
    /\ k \in DOMAIN creations
    /\ creations[k].state = "pending"
    /\ creations' = [creations EXCEPT ![k].state = IF ok THEN "resolved" ELSE "rejected"]
    /\ innertube' = IF ok THEN k ELSE innertube
    /\ initPromise' = IF ok THEN initPromise ELSE 0
    /\ tubeCalls' = [c \in DOMAIN tubeCalls |->
                        IF tubeCalls[c].on = k /\ tubeCalls[c].state # "returned"
                        THEN [tubeCalls[c] EXCEPT
                                !.state = IF ok THEN "returned" ELSE "rejected",
                                !.got = IF ok THEN k ELSE 0]
                        ELSE tubeCalls[c]]
    /\ UNCHANGED resets
    /\ UNCHANGED NotTube

TubeNext ==
    \/ GetInnertube
    \/ \E k \in 1..MaxTubeCalls, ok \in BOOLEAN : CreateSettles(k, ok)
    \/ ResetInnertubeInstance

TubeSpec == Init /\ [][TubeNext]_vars

\* ------------------------------------------------------------------------
\* moveFileToFinalDestination(cacheFilePath, finalFileName, mimeType) of
\* Variants B and C, one action per await.

NotMove == <<dcVars, searchVars, wsVars, serverVars, shellVars, boxVars, resultVars,
             cardVars, extractVars, tubeVars, cacheVars>>

\* the final destinations a wrapper is constructed with
DownloadPaths == {"", "content://saf/tree"}

\* the mime type of the selected format, which may have none
MoveMimeTypes == {Undefined, "video/mp4", "audio/mp4"}

\* the call resolves with the cache path
ReturnCachePath ==
    /\ movePc' = "returned"
    /\ moveResult' = "cache"

\* a download has finished; the call runs up to its first await, or
\* returns the cache path when no SAF destination is configured
MoveFile(finalIsSaf, finalDownloadPath, mimeType) ==
    /\ variant \in {"B", "C"}
    /\ movePc = "idle"
    /\ cacheFile' = TRUE
    /\ moveArgs' = [finalIsSaf |-> finalIsSaf, finalDownloadPath |-> finalDownloadPath,
                    mimeType |-> IF mimeType = Undefined
                                 THEN "application/octet-stream" ELSE mimeType]
    /\ IF finalIsSaf /\ finalDownloadPath # ""
       THEN movePc' = "createFileAsync" /\ UNCHANGED moveResult
       ELSE ReturnCachePath
    /\ UNCHANGED safFile
    /\ UNCHANGED NotMove

\* await StorageAccessFramework.createFileAsync(..) settles
CreateFileSettles(ok) ==
    /\ movePc = "createFileAsync"
    /\ IF ok
       THEN /\ safFile' = "created"
            /\ movePc' = "copyAsync"
            /\ UNCHANGED moveResult
       ELSE ReturnCachePath /\ UNCHANGED safFile
    /\ UNCHANGED <<moveArgs, cacheFile>>
    /\ UNCHANGED NotMove

\* a failed copy after which the cache file is deleted
CopySettlesThenDeletes(ok) ==
    /\ movePc = "copyAsync"
    /\ IF ok
       THEN /\ safFile' = "copied"
            /\ movePc' = "deleteAsync"
            /\ UNCHANGED <<moveResult, cacheFile>>
       ELSE ReturnCachePath /\ cacheFile' = FALSE /\ UNCHANGED safFile
    /\ UNCHANGED moveArgs
    /\ UNCHANGED NotMove

\* await FileSystem.copyAsync({from: cacheFilePath, to: created}) settles
CopySettles(ok) ==
    /\ movePc = "copyAsync"
    /\ IF ok
       THEN /\ safFile' = "copied"
            /\ movePc' = "deleteAsync"
            /\ UNCHANGED moveResult
       ELSE ReturnCachePath /\ UNCHANGED safFile
    /\ UNCHANGED <<moveArgs, cacheFile>>
    /\ UNCHANGED NotMove

\* await FileSystem.deleteAsync(cacheFilePath, {idempotent: true}) settles:
\* the call resolves with the uri of the created file either way
DeleteSettles(ok) ==
    /\ movePc = "deleteAsync"
    /\ cacheFile' = IF ok THEN FALSE ELSE cacheFile
    /\ movePc' = "returned"
    /\ moveResult' = "saf"
    /\ UNCHANGED <<moveArgs, safFile>>
    /\ UNCHANGED NotMove

MoveNext ==
    \/ \E finalIsSaf \in BOOLEAN, finalDownloadPath \in DownloadPaths,
          mimeType \in MoveMimeTypes :
            MoveFile(finalIsSaf, finalDownloadPath, mimeType)
    \/ \E ok \in BOOLEAN : CreateFileSettles(ok)
    \/ \E ok \in BOOLEAN : CopySettles(ok)
    \/ \E ok \in BOOLEAN : DeleteSettles(ok)

MoveSpec == Init /\ [][MoveNext]_vars

\* ------------------- Variants A and B: the cache files of downloadVideo

\* strings are sequences of characters here. The titles the engine gives:
\* plain ones, one with a character sanitizeFilename removes, and one made
\* of such characters only
Titles == {<<"a">>, <<"b">>, <<"a", "?">>, <<"?">>}

\* the extensions pickStreamUrl (A) or the mime type (B) gives for the
\* formats mp4 and mp3
Extensions == {<<"m", "p", "4">>, <<"m", "4", "a">>}

\* this.cachePath, when it is set
CacheDir == <<"c", "/">>

\* the characters of the class [<>:"/\\|?*]
Illegal == {"<", ">", ":", "\"", "/", "\\", "|", "?", "*"}

\* name.replace(/[<>:"/\\|?*]+/g, "").trim() || "video"
sanitizeFilename(name) ==
    LET replaced == SelectSeq(name, LAMBDA c : c \notin Illegal)
    IN  IF trim(replaced) = <<>> THEN <<"v", "i", "d", "e", "o">>
        ELSE trim(replaced)

\* `${this.cachePath}${title}.${extension}` for the sanitized title
cacheFilePath(title, extension) ==
    CacheDir \o sanitizeFilename(title) \o <<".">> \o extension

NotCache == <<dcVars, searchVars, wsVars, serverVars, shellVars, boxVars, resultVars,
              cardVars, extractVars, tubeVars, moveVars>>

\* downloadVideo from the point where getInfo has resolved and a format was
\* chosen up to "await resumable.downloadAsync()": the resumable writes the
\* file at cacheFilePath from now on
StartTransfer(title, extension) ==
    /\ variant \in {"A", "B"}
    /\ cachePath # ""
    /\ Len(transfers) < MaxTransfers
    /\ transfers' = Append(transfers,
                           [cacheFilePath |-> cacheFilePath(title, extension),
                            pc |-> "downloadAsync"])
    /\ cacheFiles' = cacheFiles \cup {cacheFilePath(title, extension)}
    /\ UNCHANGED NotCache

\* downloadAsync settles: on success the call goes on to
\* moveFileToFinalDestination, on failure it returns false and leaves
\* whatever was written
TransferEnds(i, ok) ==
    /\ i \in DOMAIN transfers
    /\ transfers[i].pc = "downloadAsync"
    /\ transfers' = [transfers EXCEPT ![i].pc = IF ok THEN "moveFile" ELSE "false"]
    /\ UNCHANGED <<cacheFiles, NotCache>>

\* moveFileToFinalDestination resolves: with the SAF uri after it copied the
\* cache file and deleted it, or with the cache path, the file left in place
CacheFileMoved(i, copied) ==
    /\ i \in DOMAIN transfers
    /\ transfers[i].pc = "moveFile"
    /\ transfers' = [transfers EXCEPT ![i].pc = "true"]
    /\ cacheFiles' = IF copied THEN cacheFiles \ {transfers[i].cacheFilePath}
                     ELSE cacheFiles
    /\ UNCHANGED NotCache

CacheNext ==
    \/ \E title \in Titles, extension \in Extensions : StartTransfer(title, extension)
    \/ \E i \in 1..MaxTransfers, ok \in BOOLEAN : TransferEnds(i, ok)
    \/ \E i \in 1..MaxTransfers, copied \in BOOLEAN : CacheFileMoved(i, copied)

CacheSpec == Init /\ [][CacheNext]_vars

\* a socket event: the onopen or the onclose handler of some socket runs
SocketEvent == \E s \in SocketIds : SocketOpens(s) \/ SocketCloses(s)

C12_OpenResubscribes ==
    [][\A s \in SocketIds :
          SocketOpens(s)
          => \A id \in subscribed' :
                 \E w \in SocketIds : <<w, "subscribe", id>> \in sent']_vars

\* C13: in the Variant C wrapper, whenever no storage write is in flight
\* (and the restore of the constructor has run to its end), the ids stored
\* under the active-downloads key are the keys of backgroundDownloads.
C13_StorageMatchesMap ==
    (Constructed /\ restore = "done" /\ writes = <<>>)
    => storage = backgroundDownloads

\* a descriptor the constructor found in storage
Stored(id) == wpc[id] = "previous"

\* the socket this.ws names is open
ThisOpen == ws # 0 /\ sockets[ws] = "OPEN"

CancelReturnsTrue(id) == wcancel[id] = "cleanupDownload" /\ wcancel'[id] = "idle"

\* cancelDownload(id) returns false: the backend call failed
CancelReturnsFalse(id) == wcancel[id] = "cancelDownload" /\ wcancel'[id] = "idle"

\* id is in no callback map, not subscribed, not tracked, not persisted
Forgotten(id) ==
    /\ id \notin progressCallbacks \cup completeCallbacks \cup errorCallbacks
    /\ id \notin subscribed \cup backgroundDownloads \cup storage

\* C15: Variant C cancelDownload(id) on a tracked download is all or
\* nothing. When it returns true the task of the download is stopped and
\* the id is gone from the callback maps, the subscription set,
\* backgroundDownloads and the persisted list; when it returns false the
\* download is still tracked, still persisted (once no write is in flight)
\* and the callbacks given to downloadVideo are still registered.
C15_CancelAllOrNothing ==
    [][\A id \in Ids :
          /\ CancelReturnsTrue(id)
             => /\ Forgotten(id)'
                /\ bg'[id] \notin {"started", "running"}
          /\ CancelReturnsFalse(id)
             => /\ id \in backgroundDownloads'
                /\ writes' = <<>> /\ restore' = "done" => id \in storage'
                /\ wpc[id] = "returned"
                   => id \in progressCallbacks' \cap completeCallbacks' \cap errorCallbacks']_vars

\* C16: when Variant C destroy() returns, the progress, the complete and
\* the error callback maps are all empty.
C16_DestroyClearsCallbacks ==
    [][Destroy
       => progressCallbacks' = {} /\ completeCallbacks' = {} /\ errorCallbacks' = {}]_vars

\* the download id ends: the done or the error handler of its OS task, or
\* the handler of a download_complete or download_error message, runs to
\* its cleanupDownload
Ends(id) ==
    \/ DoneHandlerMoved(id)
    \/ ErrorHandler(id)
    \/ OnDownloadComplete(id)
    \/ OnDownloadError(id)

\* callbacks of download id invoked so far
Invoked(id) == direct[id].complete + direct[id].error

\* C17: for a download that Variant C downloadVideo started with a
\* complete and an error callback, exactly one of the two is invoked,
\* once, whichever way the download ends. An ending unregisters both, so
\* the one invocation happens in the handler that ends the download, while
\* both are still registered, and never again.
C17_OneCallbackOnce ==
    /\ [](\A id \in Ids : Invoked(id) <= 1)
    /\ [][\A id \in Ids :
            Ends(id) /\ id \in completeCallbacks \cap errorCallbacks
            => Invoked(id)' = 1]_vars

\* C18: in the SAF-only app shell DownloadController.downloadVideo is
\* invoked only while isReady is true; isReady is true only if a cache
\* directory exists and a SAF directory was restored from storage or
\* granted by the user; and while no SAF directory is granted no
\* startDownload creates a task.
C18_ReadyGatesDownloads ==
    /\ [][invocations' # invocations => isReady]_vars
    /\ [](isReady => cacheDir = "created" /\ saf \in {"restored", "granted"})
    /\ [](saf = "none" => invocations = 0)

\* the text is blank: nothing but white space
Blank(t) == \A i \in DOMAIN t : t[i] = " "

\* after leading white space the text starts with http:// or https://, in
\* any case
StartsWithScheme(t) ==
    \E k \in 0..Len(t) :
        /\ \A i \in 1..k : t[i] = " "
        /\ k + 2 <= Len(t)
        /\ t[k + 1] \in {"http", "HTtp"}
        /\ \/ t[k + 2] = "://"
           \/ k + 3 <= Len(t) /\ t[k + 2] \in {"s", "S"} /\ t[k + 3] = "://"

\* the text carries a list= query parameter
HasListParameter(t) == \E i \in DOMAIN t : t[i] = "?list=" \/ t[i] = "&list="

\* C19: handleSearch on a blank query invokes no SearchController
\* operation; on any other query it invokes exactly one, with the query:
\* getPlaylistVideos if the trimmed query matches ^https?:// (in any case)
\* and contains a list= query parameter, getVideoInfo if it is such a URL
\* without one, searchVideos with maxResults 20 otherwise.
C19_HandleSearchDispatch ==
    [][HandleSearch(queryText)
       => IF Blank(queryText)
          THEN invoked' = <<>>
          ELSE /\ Len(invoked') = 1
               /\ invoked'[1].arg = queryText
               /\ invoked'[1].op =
                    IF StartsWithScheme(queryText) /\ HasListParameter(queryText)
                    THEN "getPlaylistVideos"
                    ELSE IF StartsWithScheme(queryText)
                         THEN "getVideoInfo" ELSE "searchVideos"
               /\ invoked'[1].op = "searchVideos" => invoked'[1].maxResults = 20]_vars

\* a playlist URL typed after a space and in mixed case went to
\* getPlaylistVideos
C19_Witness ==
    /\ Len(queryText) = 4
    /\ queryText[1] = " " /\ queryText[2] = "HTtp" /\ queryText[4] = "&list="
    /\ invoked # <<>> /\ invoked[1].op = "getPlaylistVideos"

\* C20: the SearchResult that searchVideos(query, maxResults) delivers
\* through any wrapper variant has at most maxResults videos, the query
\* that was asked, and a non-empty videoId in every video.
C20_SearchResultShape ==
    request.made
    => /\ result.delivered
       /\ Len(result.videos) <= request.maxResults
       /\ result.query = request.query
       /\ \A i \in DOMAIN result.videos : result.videos[i].videoId # ""

\* the descriptors of the request that have a url, that are audio, that are
\* video/mp4
Usable == {i \in DOMAIN request.streaming : request.streaming[i].hasUrl}

Audio ==
    {i \in DOMAIN request.streaming :
        includes(request.streaming[i].mime_type, <<"audio">>)}

VideoMp4 ==
    {i \in DOMAIN request.streaming :
        includes(request.streaming[i].mime_type, <<"video", "/", "mp4">>)}

\* the result is descriptor i of the request
Returns(i) == ~result.chosen.null /\ result.chosen.url = i

\* the extension the claim gives an audio descriptor
AudioExtension(i) ==
    IF includes(SubSeq(request.streaming[i].mime_type, 3, 3), <<"mp4">>)
    THEN "m4a" ELSE "webm"

\* m4a for a mime type that contains "audio/mp4", webm otherwise
AudioMp4Extension(i) ==
    IF includes(request.streaming[i].mime_type, <<"audio", "/", "mp4">>)
    THEN "m4a" ELSE "webm"

\* the claim's choice among the descriptors of the set S, with the
\* extension ext[i] of an audio descriptor i
PicksAmong(S, ext) ==
    /\ request.formatType = "mp3" /\ Audio \cap S # {}
       => \E i \in Audio \cap S :
            /\ Returns(i)
            /\ \A j \in Audio \cap S :
                request.streaming[j].bitrate <= request.streaming[i].bitrate
            /\ result.chosen.extension = ext[i]
    /\ request.formatType = "mp4" /\ S # {}
       => /\ result.chosen.extension = "mp4"
          /\ IF \E i \in VideoMp4 \cap S : request.streaming[i].has_audio
             THEN \E i \in VideoMp4 \cap S :
                    Returns(i) /\ request.streaming[i].has_audio
             ELSE IF VideoMp4 \cap S # {}
             THEN \A i \in VideoMp4 \cap S :
                    (\A j \in VideoMp4 \cap S : i <= j) => Returns(i)
             ELSE \E i \in S : Returns(i)

\* C21 as stated: Variant A's pickStreamUrl picks, for mp3, the
\* highest-bitrate descriptor among all descriptors whose mime type contains
\* "audio" (m4a if the subtype contains "mp4", else webm) and, for mp4, a
\* video/mp4 descriptor that declares audio if one exists, else the first
\* video/mp4 descriptor, else any descriptor, with extension mp4.
C21_PicksAmongAllDescriptors ==
    request.made => PicksAmong(DOMAIN request.streaming,
                   [i \in DOMAIN request.streaming |-> AudioExtension(i)])

\* C21 amended: the choice of the claim is made among the descriptors that
\* have a url, with m4a for a mime type that contains "audio/mp4", and the
\* result is null exactly when no descriptor has a url.
C21_PicksAmongDescriptorsWithUrl ==
    request.made => /\ PicksAmong(Usable,
                       [i \in DOMAIN request.streaming |-> AudioMp4Extension(i)])
                    /\ result.chosen.null <=> Usable = {}

\* an mp3 pick where an audio descriptor without a url has a higher bitrate
\* than the audio descriptor returned
C21_Witness ==
    /\ request.made /\ request.formatType = "mp3"
    /\ \E i \in Audio \cap Usable, j \in Audio \ Usable :
        /\ Returns(i)
        /\ request.streaming[j].bitrate > request.streaming[i].bitrate
        /\ result.chosen.extension = "m4a"

\* Variant B: the selected format of the call has no url
SelectedLacksUrl ==
    selectedFormat # 0 /\ ~videoInfo.formats[selectedFormat].hasUrl

\* every attempt to get a url for the selected format has failed
DecipherFailed ==
    /\ SelectedLacksUrl
    /\ attempts.cipher = "failed"
    /\ attempts.decipher \in {"none", "empty", "throws"}
    /\ attempts.decipherNull \in {"none", "empty", "throws"}

\* C22: Variant B's downloadVideo returns false, with no byte transfer
\* started and no completeCallback invoked, when the playability status is
\* UNPLAYABLE or LOGIN_REQUIRED and when the selected format has no url and
\* every decipher attempt failed; the url it downloads is never that of a
\* format other than the selected one.
C22_AbortsWithoutTransfer ==
    /\ (videoInfo.status \in {"UNPLAYABLE", "LOGIN_REQUIRED"} \/ DecipherFailed)
       => /\ bpc = "returned" /\ returned = "false"
          /\ transfer = "none" /\ timeoutTimer = "none"
          /\ completed = 0
          /\ downloadUrl = 0
    /\ downloadUrl \in {0, selectedFormat}

\* all three attempts were made for the selected format and failed, while
\* another format of the video has a url
C22_Witness ==
    /\ DecipherFailed
    /\ attempts.decipher = "throws" /\ attempts.decipherNull = "empty"
    /\ \E i \in DOMAIN videoInfo.formats :
        i # selectedFormat /\ videoInfo.formats[i].hasUrl
    /\ returned = "false"

\* C23: in Variant B, when the transfer has not finished 300 s after it
\* started, downloadVideo returns false and the completeCallback of the call
\* is never invoked, also when the transfer finishes later.
C23_TimeoutSurfaces ==
    /\ [](timeoutTimer = "fired" => completed = 0 /\ returned # "true")
    /\ (timeoutTimer = "fired") ~> (returned = "false")

\* the timer fired on a running transfer, the call returned false and the
\* transfer finished afterwards
C23_Witness ==
    /\ timeoutTimer = "fired"
    /\ returned = "false"
    /\ transfer = "finished"
    /\ completed = 0

\* the number a sequence of decimal digits denotes (0 for the empty one)
RECURSIVE Value(_)
Value(digits) ==
    IF digits = <<>> THEN 0
    ELSE 10 * Value(SubSeq(digits, 1, Len(digits) - 1))
         + (CHOOSE v \in 0..9 : Digits[v + 1] = digits[Len(digits)])

\* the parts of a text between its colons
RECURSIVE Parts(_)
Parts(text) ==
    IF \A i \in DOMAIN text : text[i] # ":" THEN <<text>>
    ELSE LET k == CHOOSE i \in DOMAIN text :
                    text[i] = ":" /\ \A j \in 1..(i - 1) : text[j] # ":"
         IN  <<SubSeq(text, 1, k - 1)>> \o Parts(SubSeq(text, k + 1, Len(text)))

IsNumber(part) ==
    part # <<>> /\ \A i \in DOMAIN part : \E v \in 0..9 : part[i] = Digits[v + 1]

\* a number written without padding
Unpadded(part) == IsNumber(part) /\ (Len(part) = 1 \/ part[1] # "0")

\* a number written in two digits
TwoDigits(part) == IsNumber(part) /\ Len(part) = 2

\* C24: formatDuration(d) is M:SS for 0 <= d < 3600 and H:MM:SS for
\* d >= 3600, with H = d div 3600, MM = (d mod 3600) div 60 and
\* SS = d mod 60 in two digits, and "Unknown" for negative d.
C24_FormatDuration ==
    request.made =>
        LET d == request.duration
            parts == Parts(result.text)
        IN  /\ d < 0 => result.text = Unknown
            /\ d >= 0 /\ d < 3600
               => /\ Len(parts) = 2
                  /\ Unpadded(parts[1]) /\ Value(parts[1]) = d \div 60
                  /\ TwoDigits(parts[2]) /\ Value(parts[2]) = d % 60
            /\ d >= 3600
               => /\ Len(parts) = 3
                  /\ Unpadded(parts[1]) /\ Value(parts[1]) = d \div 3600
                  /\ TwoDigits(parts[2]) /\ Value(parts[2]) = (d % 3600) \div 60
                  /\ TwoDigits(parts[3]) /\ Value(parts[3]) = d % 60

\* a duration of more than ten hours whose minutes and seconds need padding
C24_Witness ==
    /\ request.made
    /\ request.duration = 36000 + 5 * 60 + 7
    /\ result.text = <<"1", "0", ":", "0", "5", ":", "0", "7">>

\* C25: every task in DownloadController.downloadHistory has status
\* "completed" and is present in the live map allDownloads.
C25_HistoryHoldsCompletedTasks ==
    \A k \in DOMAIN downloadHistory :
        /\ downloadHistory[k] \in DOMAIN allDownloads
        /\ allDownloads[downloadHistory[k]].status = "completed"

\* C26: at any time at most one task per video is queued, downloading or
\* paused, because the format buttons of a video with such a task are
\* disabled, also for a press that comes before the downloads state is next
\* refreshed.
C26_OneActiveTaskPerVideo ==
    \A i, j \in DOMAIN created :
        (/\ created[i].video = created[j].video
         /\ created[i].status \in NonTerminal
         /\ created[j].status \in NonTerminal) => i = j

\* C30: when the folder picker replaces the controller, every task of the
\* controller in use that was queued, downloading or paused is afterwards
\* among the getAllDownloads() of the controller in use, where pause,
\* resume and cancel find it.
C30_PickerKeepsTasks ==
    [][controller' # controller
       => \A i \in getAllDownloads :
            created[i].status \in NonTerminal => i \in getAllDownloads']_vars

\* C27: in Variant B, as long as no reset and no failed initialization
\* occurs, Innertube.create() is called at most once however many
\* getInnertubeInstance calls overlap, and every caller receives the same
\* instance.
C27_OneCreationOneInstance ==
    (resets = 0 /\ \A k \in DOMAIN creations : creations[k].state # "rejected")
    => /\ Len(creations) <= 1
       /\ \A c, d \in DOMAIN tubeCalls :
            tubeCalls[c].state = "returned" /\ tubeCalls[d].state = "returned"
            => tubeCalls[c].got = tubeCalls[d].got

\* three calls, two of them made while the creation was pending, have all
\* received the instance of the one creation
C27_Witness ==
    /\ resets = 0
    /\ Len(creations) = 1
    /\ Len(tubeCalls) = 3
    /\ tubeCalls[1].on = 1 /\ tubeCalls[2].on = 1 /\ tubeCalls[3].on = 0
    /\ \A c \in DOMAIN tubeCalls : tubeCalls[c].state = "returned" /\ tubeCalls[c].got = 1

\* C28: in Variant B, a getInnertubeInstance call made after
\* resetInnertubeInstance() returned never returns an instance whose
\* creation started before that reset, also when the reset came while an
\* initialization was pending.
C28_NoInstanceFromBeforeReset ==
    \A c \in DOMAIN tubeCalls :
        tubeCalls[c].state = "returned"
        => creations[tubeCalls[c].got].resets >= tubeCalls[c].resets

C31_QueuedNeverObserved ==
    \A i \in DOMAIN allDownloads : allDownloads[i].status # "queued"

\* a task was inserted, its wrapper call is still pending, and a pause call
\* on it found it downloading and returned true
C31_Witness ==
    \E i \in DOMAIN allDownloads :
        /\ success[i] = "pending"
        /\ lastCall = [op |-> "pause", id |-> i, ret |-> TRUE]
        /\ allDownloads[i].status = "paused"

\* C32: in every reachable state a task's pauseFlag is true exactly when its
\* status is paused, also after the wrapper reported completion or failure
\* while the task was paused.
C32_PauseFlagIffPaused ==
    \A i \in DOMAIN allDownloads :
        allDownloads[i].pauseFlag <=> allDownloads[i].status = "paused"

\* C33: a pauseDownload, resumeDownload or cancelDownload call for an id
\* leaves every other task as it was, and leaves the membership of
\* allDownloads and the contents of downloadHistory unchanged, whatever it
\* returns.
C33_ControlCallsTouchOneTask ==
    [][\A id \in Ids :
         PauseDownload(id) \/ ResumeDownload(id) \/ CancelDownload(id)
         => /\ DOMAIN allDownloads' = DOMAIN allDownloads
            /\ \A i \in DOMAIN allDownloads \ {id} :
                 allDownloads'[i] = allDownloads[i]
            /\ downloadHistory' = downloadHistory]_vars

\* a resume call returned true for one task while the other task was paused,
\* and the other task is still paused
C33_Witness ==
    \E i, j \in DOMAIN allDownloads :
        /\ i # j
        /\ lastCall = [op |-> "resume", id |-> i, ret |-> TRUE]
        /\ allDownloads[i].status = "downloading"
        /\ allDownloads[j].status = "paused"

\* cancelDownload returned true for task i at some earlier time: nothing
\* else sets cancelFlag
Canceled(i) == i \in DOMAIN allDownloads /\ allDownloads[i].cancelFlag

\* C34 as stated: after cancelDownload returned true for a task, none of the
\* caller's progress, complete and error callbacks is invoked for it any
\* more and its progress no longer changes, whatever the wrapper reports.
C34_CancelSilencesEverything ==
    [][\A i \in Ids :
         Canceled(i)
         => /\ completeCalls'[i] = completeCalls[i]
            /\ errorCalls'[i] = errorCalls[i]
            /\ progressCalls'[i] = progressCalls[i]
            /\ allDownloads'[i].progress = allDownloads[i].progress]_vars

\* C34 amended: after cancelDownload returned true for a task, neither the
\* caller's complete callback nor its error callback is invoked for it any
\* more, whatever the wrapper reports.
C34_CancelSilencesCompleteAndError ==
    [][\A i \in Ids :
         Canceled(i)
         => /\ completeCalls'[i] = completeCalls[i]
            /\ completeArg'[i] = completeArg[i]
            /\ errorCalls'[i] = errorCalls[i]]_vars

\* a canceled task whose transfer went on: it reported progress, finished,
\* and the wrapper resolved true, with no callback of completion or error
C34_Witness ==
    \E i \in DOMAIN allDownloads :
        /\ variant \in {"A", "B"}
        /\ allDownloads[i].cancelFlag
        /\ allDownloads[i].progress = 50
        /\ success[i] = "true"
        /\ completeCalls[i] = 0 /\ errorCalls[i] = 0

\* C35: in Variant C the values delivered to the progress callback of one
\* download never decrease, although download_progress events and the
\* background task's progress handler interleave. task.progress is the value
\* delivered last, once one was delivered.
C35_ProgressNeverDecreases ==
    [][\A id \in Ids, p \in ProgressValues \cup WsProgressValues :
         /\ WsDownloadProgress(id, p) \/ TaskProgress(id, p)
         /\ id \in progressCallbacks
         /\ progressCalls[id]
         => p >= allDownloads[id].progress]_vars

\* C36: under every interleaving of connect(), disconnect(), the reconnect
\* timer and socket events, at most one socket that the client created is
\* not closed, and isConnected() is true exactly when such a socket is open.
C36_OneLiveSocket ==
    /\ Cardinality({s \in DOMAIN sockets : sockets[s] # "CLOSED"}) <= 1
    /\ isConnected <=> \E s \in DOMAIN sockets : sockets[s] = "OPEN"

\* C37: in Variant C the complete callback of a download is invoked only
\* after the OS-level transfer has finished, and with the path that
\* moveFileToFinalDestination returned, never with a path the server
\* reported.
C37_CompleteAfterLocalTransfer ==
    variant = "C"
    => \A i \in Ids :
         completeCalls[i] > 0
         => bg[i] = "done" /\ completeArg[i] \in FinalPaths

\* the searchVideos calls made so far
Searches == {c \in DOMAIN calls : calls[c].op = "searchVideos"}

\* C38: when several searchVideos calls overlapped and all of them have
\* resolved with a result, currentSearchResult is the result of the call
\* issued last, in whatever order the wrapper calls resolved.
C38_LastIssuedSearchWins ==
    /\ Searches # {}
    /\ \A c \in Searches : calls[c].pc = "resolved" /\ calls[c].wrapper # "thrown"
    => currentSearchResult = CHOOSE c \in Searches : \A d \in Searches : d <= c

\* a downloadVideo call whose transfer or move is under way
InFlight(i) == transfers[i].pc \in {"downloadAsync", "moveFile"}

\* C39: no two downloads in flight at the same time write to the same cache
\* file path, so the file of a download in flight is never removed by
\* another download that finishes.
C39_NoSharedCacheFile ==
    /\ \A i, j \in DOMAIN transfers :
         i # j /\ InFlight(i) /\ InFlight(j)
         => transfers[i].cacheFilePath # transfers[j].cacheFilePath
    /\ \A i \in DOMAIN transfers :
         InFlight(i) => transfers[i].cacheFilePath \in cacheFiles

====
